---- MODULE Spec2Model ----
(***************************************************************************)
(* Verification model of the KotonexusTakako columnar database             *)
(* (src/src/databse): the LSM memtable path (memtable.py), the             *)
(* transaction manager and write-ahead log (transaction.py), the legacy    *)
(* engine (engine.py), the distributed engine (distributed_engine.py),     *)
(* the direct-flush store (direct_flush.py) and the hash ring (cluster.py).*)
(*                                                                         *)
(* Rows carry one data column, so MemTable.update's dict merge replaces    *)
(* the value.  None is modelled by NoRow.                                  *)
(***************************************************************************)
EXTENDS Integers, Sequences, FiniteSets, TLC

(* ------------------------------ bounds -------------------------------- *)
MaxRowId == 1
MaxVal == 2
EntryLimit == 1
MaxMemTables == 4
MaxTxn == 2
MaxRows == 2
MaxOps == 1
MaxTasks == 2
MaxWal == 3
MaxWalTxn == 1
MaxPeers == 1
MaxPV == 2
HashSpaceBits == 3
VirtualNodes == 2
MaxInserts == 3

RowIds == 0..MaxRowId
Vals == 1..MaxVal
Txns == 1..MaxTxn

(* The value standing for Python's None / a missing row. *)
NoRow == 0

VARIABLES
    (* MemTableManager (memtable.py) *)
    active,        \* _active_memtables[table]
    imm,           \* _immutable_memtables[table], in append order
    sstables,      \* _sstables[table]: the readers the manager holds, in append order
    sstFiles,      \* the .sst segment files on disk, in creation order
    registry,      \* SSTableRegistry._metadata[table]: registered segment ids
    flushQueue,    \* FlushService._flush_queue (memtable ids)
    nextMemId,     \* number of MemTable objects constructed so far
    (* history variables of the memtable path *)
    latest,        \* latest[r]: value of the last insert/update of r, NoRow if none
    everDeleted,   \* everDeleted[r]: MemTable.delete(r) was applied at some time
    tomb,          \* tomb[r]: delete(r) applied and no insert/update of r since
    flushFailed,   \* some SSTable write raised
    issued         \* row ids handed out by _local_insert, in order

VARIABLES
    (* ColumnarDB (engine.py) and its storage file *)
    tbl,           \* Table.data of the one table: tbl[i] is the writer of row i-1
                   \* (0: a non-transactional call, t: a call under transaction t)
    disk,          \* the table file StorageManager.write_table wrote last
    up,            \* the process is running
    (* TransactionManager and WriteAheadLog (transaction.py) *)
    wal,           \* the records of the WAL file, in file order
    txnState,      \* Transaction.state of each transaction object
    txnOps,        \* Transaction.operations
    fired,         \* number of commit/abort callback invocations
    (* history variable: the call that returned last and how it ended *)
    lastCall

VARIABLES
    (* tasks calling one TransactionManager concurrently *)
    pc,            \* pc[k]: idle, waiting for the manager's lock, or holding it
    req,           \* req[k]: the call task k is making
    waiters,       \* asyncio.Lock._waiters of TransactionManager._lock, FIFO
    holder,        \* the task inside "async with self._lock", 0 if none
    (* history variables of the concurrent callers *)
    callsIssued,   \* callsIssued[t]: add_operation calls made for t so far
    contended      \* some call had to wait for the lock

VARIABLES
    (* ConsistentHashRing (cluster.py) of the local node *)
    ring,          \* _ring: the sorted list of (hash, node_id)
    ringNodes,     \* _nodes: the ids of the nodes in the ring
    guildCache,    \* _guild_cache: guild id -> node id, 0 when absent
    (* DirectFlushManager (direct_flush.py) of the local node, one table *)
    segs,          \* _segments[table]: the segments, each the list of its rows
    rowCounter,    \* _row_counters[table]
    (* history variables of the distributed engine *)
    issuedDirect,  \* row ids handed out by _local_insert in direct-flush mode
    lastWrite      \* the write call that returned last and how it ended

(* bounds of the legacy engine's indexed table *)
MaxColRows == 2
MaxCVal == 2

VARIABLES
    (* ColumnarDB (engine.py): one table "users" with one indexed column c *)
    colData,       \* Table.data[c]: colData[i] is the value of row id i-1
    colIndex,      \* IndexManager.indexes[table][c]: value -> list of row ids
    qcache,        \* QueryCache._cache: key -> entry; "old" is a history flag,
                   \* set when a write to the table returned after the entry
                   \* was stored
    colCall        \* history: the engine call that returned last

colVars == <<colData, colIndex, qcache, colCall>>

(* bounds of the direct-flush store driven through its own API *)
MaxSegs == 3
MaxDfRow == 1

VARIABLES
    (* history variables of the DirectFlushManager API calls *)
    dfTomb,        \* row ids whose last write was delete(table, r)
    dfLatest,      \* dfLatest[r]: the value of the last insert of r, 0 if none
    dfCompacted    \* compact(table) returned True and nothing was written since

dfVars == <<dfTomb, dfLatest, dfCompacted>>

(* bounds of the distributed cache of a non-owner node *)
MaxVer == 2
MaxClock == 3
DcTtl == 1
LruTtl == 1

VARIABLES
    (* a non-owner node's DistributedCache (cluster.py), one key (P, T) *)
    ownerVer,      \* the owner's data for (P, T): the number of writes so far
    dcache,        \* DistributedCache._cache[key], absent when not present
    dcNow,         \* time.time()
    fetchPc,       \* the task inside get(): idle, fetching, fetched
    fetchData,     \* the data fetch_guild_data returned to that task
    inbox,         \* invalidate_cache frames the owner broadcast, not yet read
    lru,           \* an LRUCache (cache.py) entry for one key
    (* history variables *)
    invalidatedVer,\* the write whose invalidation was processed last
    dcLast         \* the cache call or frame that completed last

dcVars == <<ownerVer, dcache, dcNow, fetchPc, fetchData, inbox, lru,
            invalidatedVer, dcLast>>

(* bounds of the node client *)
MaxNcTasks == 2
MaxNcNodes == 2

VARIABLES
    (* NodeClient (cluster.py) *)
    ncConn,        \* ncConn[a]: _connections holds an open connection to a
    ncFailed,      \* _failed_nodes: the blacklisted addresses
    ncReq,         \* ncReq[k]: the request() call of task k and its future
    ncLast         \* history: how the request() call that ended last ended

ncVars == <<ncConn, ncFailed, ncReq, ncLast>>

(* NodeRegistry, ClusterManager and the DistributedCache entries' sources
   (cluster.py); the registry's hash ring is ring/ringNodes/guildCache *)
MaxRegPeers == 2      \* peer nodes the registry hears from
MaxRegClock == 2      \* time.time() runs 0..MaxRegClock
HbTimeout == 1        \* HEARTBEAT_TIMEOUT, in clock ticks

VARIABLES
    peers,         \* _peers: the node ids in the registry's peer map
    lastHeartbeat, \* lastHeartbeat[n]: _peers[n].last_heartbeat
    regNow,        \* time.time()
    nodeCache,     \* nodeCache[g]: source_node of the cache entry of partition g
    regFetch,      \* the fetch_guild_data call in flight of DistributedCache.get
    regLast        \* history: the registry before its last step, and the
                   \* 'leave' callbacks the step made

regVars == <<peers, lastHeartbeat, regNow, nodeCache, regFetch, regLast>>

(* ConsistentHashRing with weighted nodes (cluster.py) *)
MaxRingNodes == 3     \* node ids 1..MaxRingNodes
MaxHalfWeight == 2    \* node weights 0.5, 1.0, .. in halves

VARIABLES
    hashRing,      \* one ConsistentHashRing: _ring, the weight of each node of
                   \* _nodes (_node_weights), and _guild_cache
    hrHist         \* history: a node was removed or re-weighted; a node was
                   \* added below the id of a node already on the ring

hrVars == <<hashRing, hrHist>>

(* ClusterManager fan-out reads (cluster.py) *)
MaxFanPeers == 2      \* peer ids 1..MaxFanPeers
MaxFanCid == 1        \* metadata['cluster_id'] values 1..MaxFanCid
MaxFanHosts == 2      \* host values 1..MaxFanHosts

VARIABLES
    fanReg,        \* registry._peers: node id -> cluster_id, host, is_healthy()
    selLast,       \* history: the peers the last fan-out call created a query
                   \* task for, while the registry is as the call saw it
    fanCall,       \* the fan_out_read call in progress: strategy, position, result
    fanTasks,      \* its tasks, the local one first
    fanOrder       \* history: the tasks in the order in which they completed
                   \* (kept for the strategies that return on a first completion)

fanVars == <<fanReg, selLast, fanCall, fanTasks, fanOrder>>

(* ColumnarDB._tables and the row operations on a named table (engine.py) *)
MaxTables == 2        \* table names 1..MaxTables
MaxEngRows == 2       \* rows per table

VARIABLES
    engTables,     \* _tables: table name -> Table.row_count
    engLast        \* history: the last row operation, whether its table
                   \* existed, how it ended and whether it changed _tables

engVars == <<engTables, engLast>>

(* The states of the MemTable objects of one table, under MemTableManager,
   FlushService and DistributedColumnarDB.commit / flush_all (memtable.py,
   distributed_engine.py).  Entries are counted, not stored. *)
MaxFsTables == 4      \* MemTable objects 1..MaxFsTables
FsEntryLimit == 2     \* MemTable.entry_limit

VARIABLES
    fsState,       \* MemTable._state per object, NONE before it is created
    fsCount,       \* MemTable.entry_count per object
    fsActive,      \* _active_memtables[table]
    fsImm,         \* _immutable_memtables[table]
    fsQueue,       \* FlushService._flush_queue
    fsLoop,        \* the memtable _flush_memtable is writing, 0 when none
    fsFlushAll,    \* the memtable flush_immediately is writing, 0 when none
    fsFiles,       \* memtables an SSTable file was written for
    fsRegistry,    \* memtables whose SSTable on_flush_complete registered
    fsScheduled    \* history: memtables schedule_flush put on the queue

fsVars == <<fsState, fsCount, fsActive, fsImm, fsQueue, fsLoop, fsFlushAll,
            fsFiles, fsRegistry, fsScheduled>>

(* CompactionService over the SSTables of one table, with the registry and
   the reader list of MemTableManager (memtable.py) *)
MaxCpSegs == 3        \* memtables flushed to level-0 SSTables
LevelThreshold == 2   \* CompactionService.LEVEL_THRESHOLD, scaled down from 4
MAX_LEVELS == 7       \* CompactionService.MAX_LEVELS

VARIABLES
    cpMem,         \* rows the active and the immutable memtables hold
    cpDisk,        \* segment id -> [level, rows] of the .sst files that exist
    cpRegistry,    \* SSTableRegistry._metadata[table]: <<[id, level], ...>>
    cpReaders,     \* MemTableManager._sstables[table], as segment ids
    cpNextSeg,     \* segment ids handed out so far
    cpLast         \* history: the last compaction, with the state before it

cpVars == <<cpMem, cpDisk, cpRegistry, cpReaders, cpNextSeg, cpLast>>

(* DirectFlushManager.compact in its steps, with writes in between *)
VARIABLES
    dfcPc,         \* "idle", or "writing": compact() awaits write_batch
    dfcRows,       \* the segment list compact() will install: the batch of
                   \* the rows get_all returned
    dfcStart,      \* number of segments when get_all returned
    dfcLast        \* history: the rows written while the last compact() ran

dfcVars == <<dfcPc, dfcRows, dfcStart, dfcLast>>

(* drop_table / create_table of one table name on the three engines: the
   legacy ColumnarDB and DistributedColumnarDB in its two storage modes *)
MaxDtRows == 2        \* inserts between a create_table and the drop_table

VARIABLES
    dtExists,      \* the name is in _schemas / _tables
    dtRows,        \* per engine: the rows its store holds under the name
    dtCache,       \* per engine: the QueryCache entry of select(table)
    dtFresh        \* history: the table was created and nothing was
                   \* inserted or dropped since

dtVars == <<dtExists, dtRows, dtCache, dtFresh>>

(* TransactionManager.recover over the WAL the manager's calls leave *)
MaxRecOps == 2        \* write_operation calls per transaction
MaxRecLog == 4        \* records in the WAL

VARIABLES
    recLog,        \* the records of the WAL files, in file order
    recLive,       \* Transaction.state of the objects the manager holds
    recovered      \* what the last recover() returned and the log it read

recVars == <<recLog, recLive, recovered>>

(* one LRUCache (cache.py) with max_size and max_memory_bytes, no TTL *)
LruKeys == 3          \* keys offered to the cache
LruMaxSize == 2       \* max_size
LruMaxBytes == 3      \* max_memory_bytes
LruMaxValue == 4      \* largest _estimate_size of a value offered

VARIABLES
    cacheEntries,  \* _cache: <<key, size_bytes>> pairs, least recently used first
    currentMemory, \* _current_memory
    lruLast        \* history: the last call, the keys in order before it and
                   \* the keys it evicted

lruVars == <<cacheEntries, currentMemory, lruLast>>

dbVars == <<tbl, disk, up>>
tmVars == <<wal, txnState, txnOps, fired>>
txnVars == <<dbVars, tmVars, lastCall>>
walVars == <<pc, req, waiters, holder, callsIssued, contended>>
clusterVars == <<ring, ringNodes, guildCache, segs, rowCounter, issuedDirect, lastWrite>>

memVars == <<active, imm, sstables, sstFiles, registry, flushQueue, nextMemId,
             latest, everDeleted, tomb, flushFailed, issued>>

(* what the steps of one component leave alone *)
laterVars == <<colVars, dfVars, dcVars, ncVars, regVars, hrVars, fanVars, engVars, fsVars, cpVars, dfcVars, dtVars, recVars, lruVars>>
notMemVars == <<txnVars, walVars, clusterVars, laterVars>>
notTxnVars == <<memVars, walVars, clusterVars, laterVars>>
notWalVars == <<memVars, dbVars, lastCall, clusterVars, laterVars>>
notClusterVars == <<memVars, txnVars, walVars, laterVars>>
firstVars == <<memVars, txnVars, walVars, clusterVars>>
notColVars == <<firstVars, dfVars, dcVars, ncVars, regVars, hrVars, fanVars, engVars, fsVars, cpVars, dfcVars, dtVars, recVars, lruVars>>
notDfVars == <<memVars, txnVars, walVars, colVars, dcVars, ncVars, regVars, hrVars, fanVars, engVars, fsVars, cpVars, dfcVars, dtVars, recVars, lruVars>>
notDcVars == <<firstVars, colVars, dfVars, ncVars, regVars, hrVars, fanVars, engVars, fsVars, cpVars, dfcVars, dtVars, recVars, lruVars>>
notNcVars == <<firstVars, colVars, dfVars, dcVars, regVars, hrVars, fanVars, engVars, fsVars, cpVars, dfcVars, dtVars, recVars, lruVars>>

(* ------------------------------ helpers ------------------------------- *)
Min(S) == CHOOSE x \in S : \A y \in S : x <= y
Max(S) == CHOOSE x \in S : \A y \in S : x >= y

(* ============================ MemTable ================================ *)
NewMemTable(id) ==
    [id |-> id, data |-> <<>>, state |-> "ACTIVE", row_counter |-> 0]

should_flush(m) == Cardinality(DOMAIN m.data) >= EntryLimit

(* dict/skip-list write: put key r with entry e *)
Put(data, r, e) == [k \in (DOMAIN data) \cup {r} |-> IF k = r THEN e ELSE data[k]]

MemTable_insert(m, r, v) ==
    [m EXCEPT !.data = Put(m.data, r, [val |-> v, deleted |-> FALSE]),
              !.row_counter = IF r \in DOMAIN m.data THEN m.row_counter
                              ELSE IF r + 1 > m.row_counter THEN r + 1
                              ELSE m.row_counter]

MemTable_update(m, r, v) ==
    IF r \in DOMAIN m.data
    THEN [m EXCEPT !.data = Put(m.data, r, [m.data[r] EXCEPT !.val = v])]
    ELSE [m EXCEPT !.data = Put(m.data, r, [val |-> v, deleted |-> FALSE])]

MemTable_delete(m, r) ==
    IF r \in DOMAIN m.data
    THEN [m EXCEPT !.data = Put(m.data, r, [m.data[r] EXCEPT !.deleted = TRUE])]
    ELSE [m EXCEPT !.data = Put(m.data, r, [val |-> NoRow, deleted |-> TRUE])]

MemTable_get(m, r) ==
    IF r \in DOMAIN m.data /\ ~m.data[r].deleted THEN m.data[r].val ELSE NoRow

(* get_all: the live entries, as a map row id -> value *)
MemTable_get_all(m) ==
    [r \in {k \in DOMAIN m.data : ~m.data[k].deleted} |-> m.data[r].val]

SSTableReader_get(sst, r) == IF r \in DOMAIN sst.rows THEN sst.rows[r] ELSE NoRow

(* ========================= MemTableManager ============================ *)
(* get_memtable: the memtable that the call returns, and the manager after it *)
NeedsRotation == should_flush(active)

RotatedImm == Append(imm, [active EXCEPT !.state = "IMMUTABLE"])

(* Guard shared by every caller of get_memtable: a rotation needs a fresh
   MemTable object and make_immutable must succeed on the old one. *)
CanGetMemtable ==
    NeedsRotation => (nextMemId < MaxMemTables /\ active.state = "ACTIVE")

(* get_memtable: the memtable the call returns *)
get_memtable == IF NeedsRotation THEN NewMemTable(nextMemId + 1) ELSE active

(* get_memtable: what the call does to the manager besides replacing the
   active memtable (the caller then writes into the returned memtable). *)
GetMemtableEffects ==
    /\ CanGetMemtable
    /\ IF NeedsRotation
       THEN /\ imm' = RotatedImm
            /\ flushQueue' = Append(flushQueue, active.id)
            /\ nextMemId' = nextMemId + 1
       ELSE /\ active.state = "ACTIVE"
            /\ UNCHANGED <<imm, flushQueue, nextMemId>>

MemTableManager_get(r) ==
    LET a == MemTable_get(active, r)
        ih == {i \in 1..Len(imm) : MemTable_get(imm[i], r) # NoRow}
        sh == {i \in 1..Len(sstables) : SSTableReader_get(sstables[i], r) # NoRow}
    IN  IF a # NoRow THEN a
        ELSE IF ih # {} THEN MemTable_get(imm[Min(ih)], r)
        ELSE IF sh # {} THEN SSTableReader_get(sstables[Max(sh)], r)
        ELSE NoRow

(* scan: the value scan() reports for row id r, NoRow when r is not in the result *)
MemTableManager_scan(r) ==
    LET a == MemTable_get(active, r)
        ih == {i \in 1..Len(imm) : MemTable_get(imm[i], r) # NoRow}
        sh == {i \in 1..Len(sstables) : SSTableReader_get(sstables[i], r) # NoRow}
    IN  IF a # NoRow THEN a
        ELSE IF ih # {} THEN MemTable_get(imm[Max(ih)], r)
        ELSE IF sh # {} THEN SSTableReader_get(sstables[Min(sh)], r)
        ELSE NoRow

(* ---------------- MemTable API driven through the manager -------------- *)
(* get_memtable(table) followed by memtable.insert(r, v) *)
MemInsert(r, v) ==
    /\ GetMemtableEffects
    /\ active' = MemTable_insert(get_memtable, r, v)
    /\ latest' = [latest EXCEPT ![r] = v]
    /\ tomb' = [tomb EXCEPT ![r] = FALSE]
    /\ UNCHANGED <<sstables, sstFiles, registry, everDeleted, flushFailed, issued>>

(* get_memtable(table) followed by memtable.update(r, {col: v}) *)
MemUpdate(r, v) ==
    /\ GetMemtableEffects
    /\ active' = MemTable_update(get_memtable, r, v)
    /\ latest' = [latest EXCEPT ![r] = v]
    /\ tomb' = [tomb EXCEPT ![r] = FALSE]
    /\ UNCHANGED <<sstables, sstFiles, registry, everDeleted, flushFailed, issued>>

(* get_memtable(table) followed by memtable.delete(r) *)
MemDelete(r) ==
    /\ GetMemtableEffects
    /\ active' = MemTable_delete(get_memtable, r)
    /\ tomb' = [tomb EXCEPT ![r] = TRUE]
    /\ everDeleted' = [everDeleted EXCEPT ![r] = TRUE]
    /\ UNCHANGED <<sstables, sstFiles, registry, latest, flushFailed, issued>>

(* DistributedColumnarDB._local_insert in memtable mode: get_memtable, then
   row_id = memtable.get_next_row_id(), then memtable.insert(row_id, row) *)
MemTable_get_next_row_id(m) == m.row_counter

LocalInsert(v) ==
    /\ Len(issued) < MaxInserts
    /\ MemTable_get_next_row_id(get_memtable) \in RowIds
    /\ GetMemtableEffects
    /\ active' = MemTable_insert(get_memtable, MemTable_get_next_row_id(get_memtable), v)
    /\ issued' = Append(issued, MemTable_get_next_row_id(get_memtable))
    /\ latest' = [latest EXCEPT ![MemTable_get_next_row_id(get_memtable)] = v]
    /\ tomb' = [tomb EXCEPT ![MemTable_get_next_row_id(get_memtable)] = FALSE]
    /\ UNCHANGED <<sstables, sstFiles, registry, everDeleted, flushFailed>>

(* get_memtable(table) alone, as count() and get_table_info() call it *)
GetMemtable ==
    /\ NeedsRotation
    /\ GetMemtableEffects
    /\ active' = get_memtable
    /\ UNCHANGED <<sstables, sstFiles, registry, latest, everDeleted, tomb, flushFailed, issued>>

(* ============================ FlushService ============================ *)
ImmIndex(id) == CHOOSE i \in 1..Len(imm) : imm[i].id = id

SetImmState(i, st) == [imm EXCEPT ![i].state = st]

(* SelectSeq without a lambda over records: keep the memtables not FLUSHED *)
NotFlushed(m) == m.state # "FLUSHED"

(* ---- SSTable file format: the footer (memtable.py:533-538, 619-629) ---- *)
(* The writer ends a segment with these 8-byte offsets, followed by MAGIC. *)
FooterWritten ==
    <<"bloom_filter_offset", "data_offset", "actual_index_offset", "footer_offset">>

WordBytes == 8        \* struct 'Q'
MagicBytes == 4       \* b'SSTB'
FooterSeekBytes == 28 \* f.seek(-28, 2) in _load_metadata_sync

(* The three offsets _load_metadata_sync unpacks after seeking 28 bytes back
   from the end of the file: <<bloom_off, data_off, index_off>>. *)
FooterRead ==
    LET words == (FooterSeekBytes - MagicBytes) \div WordBytes
        first == Len(FooterWritten) - words + 1
    IN  [k \in 1..words |-> FooterWritten[first + k - 1]]

(* load_metadata seeks to index_off and unpacks index_count and that many
   12-byte entries.  Anywhere but at the index block the count it reads is the
   bloom filter offset (at least 30) and the entries run past the 32 bytes
   left in the file, so struct.unpack raises. *)
SSTableReader_load_metadata_ok == FooterRead[3] = "actual_index_offset"

(* SSTableWriter.write: the segment written for memtable m *)
SSTableWriter_write(m) == [id |-> m.id, rows |-> MemTable_get_all(m)]

(* MemTableManager._on_flush_complete(metadata), given imm after the state
   change: register, open a reader, add it, drop the FLUSHED memtables.  When
   load_metadata raises, the callback stops after the registration. *)
OnFlushComplete(file, immNow) ==
    /\ registry' = Append(registry, file.id)
    /\ IF SSTableReader_load_metadata_ok
       THEN /\ sstables' = Append(sstables, file)
            /\ imm' = SelectSeq(immNow, NotFlushed)
       ELSE /\ sstables' = sstables
            /\ imm' = immNow

(* _flush_loop takes the head of the queue and _flush_memtable writes it.
   A memtable without live entries yields no metadata and stays FLUSHING. *)
FlushMemtable ==
    /\ flushQueue # <<>>
    /\ LET i == ImmIndex(Head(flushQueue))
           m == imm[i]
       IN  IF DOMAIN MemTable_get_all(m) = {}
           THEN /\ imm' = SetImmState(i, "FLUSHING")
                /\ UNCHANGED <<sstables, sstFiles, registry>>
           ELSE /\ sstFiles' = Append(sstFiles, SSTableWriter_write(m))
                /\ OnFlushComplete(SSTableWriter_write(m), SetImmState(i, "FLUSHED"))
    /\ flushQueue' = Tail(flushQueue)
    /\ UNCHANGED <<active, nextMemId, latest, everDeleted, tomb, flushFailed, issued>>

(* _flush_memtable when the writer raises: the memtable goes back to IMMUTABLE *)
FlushMemtableFails ==
    /\ flushQueue # <<>>
    /\ LET i == ImmIndex(Head(flushQueue))
       IN  /\ DOMAIN MemTable_get_all(imm[i]) # {}
           /\ imm' = SetImmState(i, "IMMUTABLE")
    /\ flushQueue' = Tail(flushQueue)
    /\ flushFailed' = TRUE
    /\ UNCHANGED <<active, sstables, sstFiles, registry, nextMemId,
                   latest, everDeleted, tomb, issued>>

InitMem ==
    /\ active = NewMemTable(1)
    /\ imm = <<>>
    /\ sstables = <<>>
    /\ sstFiles = <<>>
    /\ registry = <<>>
    /\ flushQueue = <<>>
    /\ nextMemId = 1
    /\ latest = [r \in RowIds |-> NoRow]
    /\ everDeleted = [r \in RowIds |-> FALSE]
    /\ tomb = [r \in RowIds |-> FALSE]
    /\ flushFailed = FALSE
    /\ issued = <<>>

NextMem ==
    \/ \E r \in RowIds, v \in Vals : MemInsert(r, v) /\ UNCHANGED notMemVars
    \/ \E r \in RowIds, v \in Vals : MemUpdate(r, v) /\ UNCHANGED notMemVars
    \/ \E r \in RowIds : MemDelete(r) /\ UNCHANGED notMemVars
    \/ GetMemtable /\ UNCHANGED notMemVars
    \/ FlushMemtable /\ UNCHANGED notMemVars
    \/ FlushMemtableFails /\ UNCHANGED notMemVars

(* ====================== TransactionManager / WAL ====================== *)
(* Transaction.state; NONE: no such object yet, LOST: the object died with
   the process, PENDING: set by recover() only. *)
TransactionState == {"NONE", "ACTIVE", "COMMITTED", "ABORTED", "PENDING", "LOST"}

Finished(t) == txnState[t] \in {"COMMITTED", "ABORTED"}

(* the caller holds a Transaction object for t *)
HasTxnObject(t) == txnState[t] \notin {"NONE", "LOST"}

(* WAL records: one per operation, one COMMIT, one ABORT *)
OpRecord(t, op) == [txn |-> t, kind |-> op.kind, row_id |-> op.row_id, seq |-> op.seq]
CommitRecord(t) == [txn |-> t, kind |-> "COMMIT", row_id |-> -1, seq |-> 0]
AbortRecord(t) == [txn |-> t, kind |-> "ABORT", row_id |-> -1, seq |-> 0]

OpKinds == {"INSERT", "UPDATE"}

(* begin(): a new ACTIVE transaction *)
TransactionManager_begin(t) ==
    /\ txnState' = [txnState EXCEPT ![t] = "ACTIVE"]
    /\ UNCHANGED <<wal, txnOps, fired>>

(* add_operation without the state test of lines 246-247: the record is
   written before Transaction.add_operation rejects the operation. *)
add_operation_NoStateCheck(t, op, okw) ==
    IF ~okw
    THEN UNCHANGED <<wal, txnState, txnOps, fired>>
    ELSE /\ wal' = Append(wal, OpRecord(t, op))
         /\ txnOps' = [txnOps EXCEPT ![t] =
                          IF txnState[t] = "ACTIVE" THEN Append(@, op) ELSE @]
         /\ UNCHANGED <<txnState, fired>>

(* add_operation(txn, op); okw: the WAL append succeeds *)
TransactionManager_add_operation(t, op, okw) ==
    IF txnState[t] # "ACTIVE" \/ ~okw
    THEN UNCHANGED <<wal, txnState, txnOps, fired>>
    ELSE /\ wal' = Append(wal, OpRecord(t, op))
         /\ txnOps' = [txnOps EXCEPT ![t] = Append(@, op)]
         /\ UNCHANGED <<txnState, fired>>

add_operation_result(t, okw) ==
    IF txnState[t] # "ACTIVE" THEN "RuntimeError"
    ELSE IF ~okw THEN "OSError"
    ELSE "None"

(* commit(txn): one commit callback is registered *)
TransactionManager_commit(t, okw) ==
    IF txnState[t] # "ACTIVE" \/ ~okw
    THEN UNCHANGED <<wal, txnState, txnOps, fired>>
    ELSE /\ wal' = Append(wal, CommitRecord(t))
         /\ txnState' = [txnState EXCEPT ![t] = "COMMITTED"]
         /\ fired' = fired + 1
         /\ UNCHANGED txnOps

commit_result(t, okw) ==
    IF txnState[t] # "ACTIVE" THEN "RuntimeError"
    ELSE IF ~okw THEN "False"
    ELSE "True"

(* abort(txn): one abort callback is registered *)
TransactionManager_abort(t, okw) ==
    IF txnState[t] # "ACTIVE" \/ ~okw
    THEN UNCHANGED <<wal, txnState, txnOps, fired>>
    ELSE /\ wal' = Append(wal, AbortRecord(t))
         /\ txnState' = [txnState EXCEPT ![t] = "ABORTED"]
         /\ fired' = fired + 1
         /\ UNCHANGED txnOps

abort_result(t, okw) ==
    IF txnState[t] # "ACTIVE" THEN "False"
    ELSE IF ~okw THEN "False"
    ELSE "True"

(* recover(): the state recover() gives the Transaction object it builds
   for t from the records of the log, NONE when the log has no record of t *)
HasRecord(log, t, kind) == \E i \in 1..Len(log) : log[i].txn = t /\ log[i].kind = kind

IsOpOf(t, rec) == rec.txn = t /\ rec.kind \in OpKinds

(* a recover() that takes every transaction without COMMIT for aborted *)
recover_state_NoPending(log, t) ==
    IF ~\E i \in 1..Len(log) : log[i].txn = t THEN "NONE"
    ELSE IF HasRecord(log, t, "COMMIT") THEN "COMMITTED"
    ELSE "ABORTED"

TransactionManager_recover_state(log, t) ==
    IF ~\E i \in 1..Len(log) : log[i].txn = t THEN "NONE"
    ELSE IF HasRecord(log, t, "COMMIT") THEN "COMMITTED"
    ELSE IF HasRecord(log, t, "ABORT") THEN "ABORTED"
    ELSE "PENDING"

TransactionManager_recover_ops(log, t) ==
    LET idx == {i \in 1..Len(log) : IsOpOf(t, log[i])}
        RECURSIVE Collect(_)
        Collect(i) ==
            IF i > Len(log) THEN <<>>
            ELSE IF i \in idx
                 THEN <<[kind |-> log[i].kind, row_id |-> log[i].row_id,
                         seq |-> log[i].seq]>> \o Collect(i + 1)
                 ELSE Collect(i + 1)
    IN  Collect(1)

(* ============================ ColumnarDB ============================== *)
NoTxn == 0

Writers == {NoTxn} \cup Txns

(* how a call ended: what the TransactionManager call returned or raised
   (tm), what the engine call returned or raised (engine), whether the WAL
   write of the call failed, whether the transaction was Committed/Aborted
   before the call, and whether the call changed the log, the callbacks
   fired, or the transaction's state or operation list. *)
CallRecord(op, t, tm, engine, walFailed, onFinished, changed) ==
    [op |-> op, txn |-> t, tm |-> tm, engine |-> engine,
     walFailed |-> walFailed, onFinished |-> onFinished, changed |-> changed]

NoCall == CallRecord("none", NoTxn, "None", "None", FALSE, FALSE, FALSE)

(* did the step change what the TransactionManager holds for t *)
TmChanged(t) ==
    \/ wal' # wal
    \/ fired' # fired
    \/ txnState'[t] # txnState[t]
    \/ txnOps'[t] # txnOps[t]

(* _save_table: the table file takes the in-memory columns *)
SaveTable(newTbl) == disk' = newTbl

(* the tail shared by insert and update: log under a transaction, save
   otherwise (engine.py:258-267, 325-333) *)
LogOrSave(name, t, kind, row_id, okw) ==
    IF t = NoTxn
    THEN /\ okw
         /\ SaveTable(tbl')
         /\ UNCHANGED tmVars
         /\ lastCall' = CallRecord(name, t, "None", "None", FALSE, FALSE, FALSE)
    ELSE /\ HasTxnObject(t)
         /\ Len(txnOps[t]) < MaxOps
         /\ TransactionManager_add_operation(t,
                [kind |-> kind, row_id |-> row_id, seq |-> Len(txnOps[t]) + 1], okw)
         /\ UNCHANGED disk
         /\ lastCall' = CallRecord(name, t, add_operation_result(t, okw),
                                   add_operation_result(t, okw),
                                   txnState[t] = "ACTIVE" /\ ~okw,
                                   Finished(t), TmChanged(t))

(* ColumnarDB.insert(table, row, transaction) *)
Insert(t, okw) ==
    /\ up
    /\ Len(tbl) < MaxRows
    /\ tbl' = Append(tbl, t)
    /\ LogOrSave("insert", t, "INSERT", Len(tbl), okw)
    /\ UNCHANGED up

(* ColumnarDB.update(table, data, None, transaction): every row is rewritten *)
Update(t, okw) ==
    /\ up
    /\ tbl' = [i \in 1..Len(tbl) |-> t]
    /\ LogOrSave("update", t, "UPDATE", -1, okw)
    /\ UNCHANGED up

(* ColumnarDB.select / count: the rows a read returns *)
ColumnarDB_select == tbl

ColumnarDB_count == Len(tbl)

(* ColumnarDB.begin_transaction *)
BeginTransaction(t) ==
    /\ up
    /\ txnState[t] = "NONE"
    /\ TransactionManager_begin(t)
    /\ lastCall' = CallRecord("begin", t, "None", "None", FALSE, FALSE, FALSE)
    /\ UNCHANGED dbVars

(* ColumnarDB.commit(transaction): the return value of txn_manager.commit is
   dropped; the table is saved when the transaction has operations. *)
Commit(t, okw) ==
    /\ up
    /\ HasTxnObject(t)
    /\ TransactionManager_commit(t, okw)
    /\ IF commit_result(t, okw) # "RuntimeError" /\ txnOps[t] # <<>>
       THEN SaveTable(tbl)
       ELSE UNCHANGED disk
    /\ lastCall' = CallRecord("commit", t, commit_result(t, okw),
                              IF commit_result(t, okw) = "RuntimeError"
                              THEN "RuntimeError" ELSE "None",
                              txnState[t] = "ACTIVE" /\ ~okw,
                              Finished(t), TmChanged(t))
    /\ UNCHANGED <<tbl, up>>

(* ColumnarDB.rollback(transaction): txn_manager.abort and nothing else *)
Rollback(t, okw) ==
    /\ up
    /\ HasTxnObject(t)
    /\ TransactionManager_abort(t, okw)
    /\ lastCall' = CallRecord("rollback", t, abort_result(t, okw), "None",
                              txnState[t] = "ACTIVE" /\ ~okw,
                              Finished(t), TmChanged(t))
    /\ UNCHANGED dbVars

(* The process dies: memory is dropped, the files stay. *)
Dropped == [t \in Txns |-> IF txnState[t] = "NONE" THEN "NONE" ELSE "LOST"]

Crash ==
    /\ up
    /\ up' = FALSE
    /\ tbl' = <<>>
    /\ txnState' = Dropped
    /\ txnOps' = [t \in Txns |-> <<>>]
    /\ lastCall' = CallRecord("crash", NoTxn, "None", "None", FALSE, FALSE, FALSE)
    /\ UNCHANGED <<disk, wal, fired>>

(* The process dies inside commit(t), after write_commit and before
   _save_table (engine.py:514-518). *)
CrashInCommit(t) ==
    /\ up
    /\ txnState[t] = "ACTIVE"
    /\ txnOps[t] # <<>>
    /\ wal' = Append(wal, CommitRecord(t))
    /\ up' = FALSE
    /\ tbl' = <<>>
    /\ txnState' = Dropped
    /\ txnOps' = [u \in Txns |-> <<>>]
    /\ lastCall' = CallRecord("crash", t, "None", "None", FALSE, FALSE, FALSE)
    /\ UNCHANGED <<disk, fired>>

(* Restart on the same data_dir: initialize() loads the table file, then
   txn_manager.recover() rebuilds the Transaction objects from the WAL. *)
Restart ==
    /\ ~up
    /\ up' = TRUE
    /\ tbl' = disk
    /\ txnState' = [t \in Txns |->
                      IF TransactionManager_recover_state(wal, t) = "NONE"
                      THEN txnState[t]
                      ELSE TransactionManager_recover_state(wal, t)]
    /\ txnOps' = [t \in Txns |-> TransactionManager_recover_ops(wal, t)]
    /\ lastCall' = CallRecord("restart", NoTxn, "None", "None", FALSE, FALSE, FALSE)
    /\ UNCHANGED <<disk, wal, fired>>

InitTxn ==
    /\ tbl = <<>>
    /\ disk = <<>>
    /\ up = TRUE
    /\ wal = <<>>
    /\ txnState = [t \in Txns |-> "NONE"]
    /\ txnOps = [t \in Txns |-> <<>>]
    /\ fired = 0
    /\ lastCall = NoCall

NextTxn ==
    \/ \E t \in Txns : BeginTransaction(t) /\ UNCHANGED notTxnVars
    \/ \E t \in Writers, okw \in BOOLEAN : Insert(t, okw) /\ UNCHANGED notTxnVars
    \/ \E t \in Writers, okw \in BOOLEAN : Update(t, okw) /\ UNCHANGED notTxnVars
    \/ \E t \in Txns, okw \in BOOLEAN : Commit(t, okw) /\ UNCHANGED notTxnVars
    \/ \E t \in Txns, okw \in BOOLEAN : Rollback(t, okw) /\ UNCHANGED notTxnVars
    \/ Crash /\ UNCHANGED notTxnVars
    \/ \E t \in Txns : CrashInCommit(t) /\ UNCHANGED notTxnVars
    \/ Restart /\ UNCHANGED notTxnVars

(* ============ concurrent callers of one TransactionManager ============ *)
(* Every TransactionManager method runs inside "async with self._lock".
   asyncio.Lock grants the lock in the order of the acquire() calls: a caller
   that finds the lock held, or finds waiters, queues behind them. *)
Tasks == 1..MaxTasks

(* the transactions the concurrent tasks work on *)
WalTxns == 1..MaxWalTxn

NoTask == 0

NoReq == [op |-> "none", txn |-> NoTxn, seq |-> 0]

(* async with self._lock, entering: task k takes the free lock or waits *)
LockAcquire(k) ==
    IF holder = NoTask /\ waiters = <<>>
    THEN /\ holder' = k
         /\ pc' = [pc EXCEPT ![k] = "holding"]
         /\ UNCHANGED <<waiters, contended>>
    ELSE /\ waiters' = Append(waiters, k)
         /\ pc' = [pc EXCEPT ![k] = "waiting"]
         /\ contended' = TRUE
         /\ UNCHANGED holder

(* async with self._lock, leaving: the first waiter is woken *)
LockRelease(k) ==
    IF waiters = <<>>
    THEN /\ holder' = NoTask
         /\ pc' = [pc EXCEPT ![k] = "idle"]
         /\ UNCHANGED waiters
    ELSE /\ holder' = Head(waiters)
         /\ pc' = [pc EXCEPT ![k] = "idle", ![Head(waiters)] = "holding"]
         /\ waiters' = Tail(waiters)

(* add_operation calls made so far, over the transactions of S *)
RECURSIVE SumCalls(_)
SumCalls(S) ==
    IF S = {} THEN 0
    ELSE LET t == CHOOSE x \in S : TRUE
         IN  callsIssued[t] + SumCalls(S \ {t})

(* task k calls begin() *)
CallBegin(k, t) ==
    /\ pc[k] = "idle"
    /\ txnState[t] = "NONE"
    /\ \A j \in Tasks : ~(req[j].op = "begin" /\ req[j].txn = t)
    /\ req' = [req EXCEPT ![k] = [op |-> "begin", txn |-> t, seq |-> 0]]
    /\ LockAcquire(k)
    /\ UNCHANGED <<tmVars, callsIssued>>

(* task k calls add_operation(txn, op); the operation is the
   (callsIssued[t] + 1)-th one handed to add_operation for t *)
CallAddOperation(k, t) ==
    /\ pc[k] = "idle"
    /\ SumCalls(WalTxns) < MaxWal
    /\ HasTxnObject(t)
    /\ req' = [req EXCEPT ![k] = [op |-> "add_operation", txn |-> t,
                                  seq |-> callsIssued[t] + 1]]
    /\ callsIssued' = [callsIssued EXCEPT ![t] = @ + 1]
    /\ LockAcquire(k)
    /\ UNCHANGED tmVars

(* task k calls commit(txn) *)
CallCommit(k, t) ==
    /\ pc[k] = "idle"
    /\ Len(wal) < MaxWal
    /\ HasTxnObject(t)
    /\ req' = [req EXCEPT ![k] = [op |-> "commit", txn |-> t, seq |-> 0]]
    /\ LockAcquire(k)
    /\ UNCHANGED <<tmVars, callsIssued>>

(* task k calls abort(txn) *)
CallAbort(k, t) ==
    /\ pc[k] = "idle"
    /\ Len(wal) < MaxWal
    /\ HasTxnObject(t)
    /\ req' = [req EXCEPT ![k] = [op |-> "abort", txn |-> t, seq |-> 0]]
    /\ LockAcquire(k)
    /\ UNCHANGED <<tmVars, callsIssued>>

(* the body of the call of task k, run while k holds the lock *)
RunBody(k, okw) ==
    /\ pc[k] = "holding"
    /\ holder = k
    /\ LET t == req[k].txn
       IN  CASE req[k].op = "begin" -> okw /\ TransactionManager_begin(t)
             [] req[k].op = "add_operation" ->
                    TransactionManager_add_operation(t,
                        [kind |-> "INSERT", row_id |-> -1, seq |-> req[k].seq], okw)
             [] req[k].op = "commit" -> TransactionManager_commit(t, okw)
             [] req[k].op = "abort" -> TransactionManager_abort(t, okw)
    /\ req' = [req EXCEPT ![k] = NoReq]
    /\ LockRelease(k)
    /\ UNCHANGED <<callsIssued, contended>>

InitWal ==
    /\ pc = [k \in Tasks |-> "idle"]
    /\ req = [k \in Tasks |-> NoReq]
    /\ waiters = <<>>
    /\ holder = NoTask
    /\ callsIssued = [t \in Txns |-> 0]
    /\ contended = FALSE

NextWal ==
    \/ \E k \in Tasks, t \in WalTxns : CallBegin(k, t) /\ UNCHANGED notWalVars
    \/ \E k \in Tasks, t \in WalTxns : CallAddOperation(k, t) /\ UNCHANGED notWalVars
    \/ \E k \in Tasks, t \in WalTxns : CallCommit(k, t) /\ UNCHANGED notWalVars
    \/ \E k \in Tasks, t \in WalTxns : CallAbort(k, t) /\ UNCHANGED notWalVars
    \/ \E k \in Tasks, okw \in BOOLEAN : RunBody(k, okw) /\ UNCHANGED notWalVars

(* ========================= ConsistentHashRing ========================= *)
Local == 1

Peers == 2..(1 + MaxPeers)

PVals == 1..MaxPV

NoNode == 0

HashSpace == 2 ^ HashSpaceBits

(* _hash_vnode / _hash_guild: fixed mixing functions into the hash space
   (blake2b and the snowflake hash in the source) *)
hash_vnode(n, i) == (5 * n + 3 * i + 1) % HashSpace

hash_guild(g) == (3 * g) % HashSpace

(* tuple order of the ring entries (hash, node_id) *)
EntryLess(a, b) == a[1] < b[1] \/ (a[1] = b[1] /\ a[2] < b[2])

(* bisect.insort: insert e after the entries that are not greater *)
RECURSIVE insort(_, _)
insort(seq, e) ==
    IF seq = <<>> THEN <<e>>
    ELSE IF EntryLess(e, Head(seq)) THEN <<e>> \o seq
    ELSE <<Head(seq)>> \o insort(Tail(seq), e)

(* add_node's loop over the virtual nodes i .. VirtualNodes-1 of node n *)
RECURSIVE AddVnodes(_, _, _)
AddVnodes(seq, n, i) ==
    IF i >= VirtualNodes THEN seq
    ELSE AddVnodes(insort(seq, <<hash_vnode(n, i), n>>), n, i + 1)

(* remove_node: the ring without the entries of n *)
RingWithout(seq, n) ==
    LET keep == {i \in 1..Len(seq) : seq[i][2] # n}
        RECURSIVE Pick(_)
        Pick(i) == IF i > Len(seq) THEN <<>>
                   ELSE IF i \in keep THEN <<seq[i]>> \o Pick(i + 1)
                   ELSE Pick(i + 1)
    IN  Pick(1)

(* bisect.bisect_left(self._ring, (hash_value, "")) with the wrap-around *)
RingLookup(g) ==
    LET idx == Cardinality({i \in 1..Len(ring) : ring[i][1] < hash_guild(g)})
    IN  IF idx >= Len(ring) THEN ring[1][2] ELSE ring[idx + 1][2]

CacheHit(g) == guildCache[g] # NoNode /\ guildCache[g] \in ringNodes

(* get_node_for_guild: the owner returned, NoNode for None *)
get_node_for_guild(g) ==
    IF CacheHit(g) THEN guildCache[g]
    ELSE IF ring = <<>> THEN NoNode
    ELSE IF RingLookup(g) \in ringNodes THEN RingLookup(g) ELSE NoNode

(* get_node_for_guild: the memo after the call *)
CacheAfterLookup(g) ==
    IF CacheHit(g) \/ ring = <<>> THEN guildCache
    ELSE [guildCache EXCEPT ![g] = RingLookup(g)]

(* ClusterManager.is_owner *)
is_owner(g) == get_node_for_guild(g) = Local

(* NodeRegistry._add_peer -> ConsistentHashRing.add_node *)
AddPeer(n) ==
    /\ n \notin ringNodes
    /\ ringNodes' = ringNodes \cup {n}
    /\ ring' = AddVnodes(ring, n, 0)
    /\ guildCache' = [g \in PVals |-> NoNode]
    /\ UNCHANGED <<segs, rowCounter, issuedDirect, lastWrite>>

(* NodeRegistry._remove_peer -> ConsistentHashRing.remove_node *)
RemovePeer(n) ==
    /\ n \in ringNodes
    /\ ringNodes' = ringNodes \ {n}
    /\ ring' = RingWithout(ring, n)
    /\ guildCache' = [g \in PVals |-> NoNode]
    /\ UNCHANGED <<segs, rowCounter, issuedDirect, lastWrite>>

(* ============ DistributedColumnarDB, direct-flush storage ============= *)
(* how a write ended: its kind, its partition value (0: none), whether the
   local node owned the partition when the call was made, how the call ended
   (applied locally, forwarded to the owner, failed, or returned a row count
   without either), and whether it changed the local segments. *)
WriteRecord(kind, pv, owner, outcome, changed) ==
    [kind |-> kind, pv |-> pv, owner |-> owner, outcome |-> outcome, changed |-> changed]

NoWrite == WriteRecord("none", 0, FALSE, "none", FALSE)

(* DirectFlushManager.get_next_row_id *)
DirectFlushManager_get_next_row_id == rowCounter

(* DirectFlushManager.insert appends one segment for the row and takes
   max(counter, row_id + 1); after get_next_row_id (row_id = the counter
   before its increment) that is the incremented counter *)
DirectFlushManager_insert(row_id, pv) ==
    /\ segs' = Append(segs, <<[row_id |-> row_id, pv |-> pv]>>)
    /\ rowCounter' = Max({rowCounter, row_id + 1})

(* DirectFlushManager.clear_table *)
DirectFlushManager_clear_table ==
    /\ segs' = <<>>
    /\ rowCounter' = 0

(* Table.row_count of the engine's table object: _local_insert never raises
   it in this storage mode, and _save_table writes the empty columns. *)
table_row_count == 0

(* insert(table, {partition_key: g, ...}); fwd: the owner answers success *)
ClientInsert(g, fwd) ==
    /\ Len(issuedDirect) < MaxInserts
    /\ guildCache' = CacheAfterLookup(g)
    /\ IF is_owner(g)
       THEN /\ fwd
            /\ DirectFlushManager_insert(DirectFlushManager_get_next_row_id, g)
            /\ issuedDirect' = Append(issuedDirect, DirectFlushManager_get_next_row_id)
            /\ lastWrite' = WriteRecord("insert", g, TRUE, "applied", TRUE)
       ELSE /\ UNCHANGED <<segs, rowCounter, issuedDirect>>
            /\ lastWrite' = WriteRecord("insert", g, FALSE,
                    IF get_node_for_guild(g) # NoNode /\ fwd THEN "forwarded" ELSE "failed",
                    FALSE)
    /\ UNCHANGED <<ring, ringNodes>>

(* update(table, data, where partition_key = g): the rows are looked for in
   range(table.row_count); the ring is not consulted *)
ClientUpdate(g) ==
    /\ lastWrite' = WriteRecord("update", g, is_owner(g), "returned",
                                table_row_count > 0 /\ segs # <<>>)
    /\ UNCHANGED <<ring, ringNodes, guildCache, segs, rowCounter, issuedDirect>>

(* delete(table, where partition_key = g): as update *)
ClientDelete(g) ==
    /\ lastWrite' = WriteRecord("delete", g, is_owner(g), "returned",
                                table_row_count > 0 /\ segs # <<>>)
    /\ UNCHANGED <<ring, ringNodes, guildCache, segs, rowCounter, issuedDirect>>

(* delete(table) without a condition: clear_table *)
ClientDeleteAll ==
    /\ DirectFlushManager_clear_table
    /\ lastWrite' = WriteRecord("delete_all", 0, FALSE, "applied", segs # <<>>)
    /\ UNCHANGED <<ring, ringNodes, guildCache, issuedDirect>>

InitCluster ==
    /\ ringNodes = {Local}
    /\ ring = AddVnodes(<<>>, Local, 0)
    /\ guildCache = [g \in PVals |-> NoNode]
    /\ segs = <<>>
    /\ rowCounter = 0
    /\ issuedDirect = <<>>
    /\ lastWrite = NoWrite

NextCluster ==
    \/ \E n \in Peers : AddPeer(n) /\ UNCHANGED notClusterVars
    \/ \E n \in Peers : RemovePeer(n) /\ UNCHANGED notClusterVars
    \/ \E g \in PVals, fwd \in BOOLEAN : ClientInsert(g, fwd) /\ UNCHANGED notClusterVars
    \/ \E g \in PVals : ClientUpdate(g) /\ UNCHANGED notClusterVars
    \/ \E g \in PVals : ClientDelete(g) /\ UNCHANGED notClusterVars
    \/ ClientDeleteAll /\ UNCHANGED notClusterVars

(* row ids: the engine in memtable mode and the engine in direct-flush mode,
   each with its own table *)
NextIds ==
    \/ \E v \in Vals : LocalInsert(v) /\ UNCHANGED notMemVars
    \/ FlushMemtable /\ UNCHANGED notMemVars
    \/ FlushMemtableFails /\ UNCHANGED notMemVars
    \/ \E g \in PVals : ClientInsert(g, TRUE) /\ UNCHANGED notClusterVars
    \/ ClientDeleteAll /\ UNCHANGED notClusterVars

(* ================ ColumnarDB: indexes and the query cache ============== *)
ColVals == 1..MaxCVal
(* None as an index key *)
Null == 0
(* condition=None; a condition q # NoCond stands for where_eq(c, q) *)
NoCond == 0
Conds == {NoCond} \cup ColVals

(* the positions (row id + 1) whose row satisfies the condition *)
Matching(dat, q) == {i \in 1..Len(dat) : q = NoCond \/ dat[i] = q}

(* "if index:" in IndexManager: BTreeIndex defines __len__, so an index
   object with no key is falsy *)
IndexTruthy(idx) == \E k \in DOMAIN idx : idx[k] # <<>>

(* IndexManager.insert_to_index -> BTreeIndex.insert *)
insert_to_index(idx, v, rid) ==
    IF ~IndexTruthy(idx) \/ v = Null THEN idx
    ELSE IF \E j \in 1..Len(idx[v]) : idx[v][j] = rid THEN idx
    ELSE [idx EXCEPT ![v] = Append(@, rid)]

(* IndexManager.delete_from_index -> BTreeIndex.delete(key, row_id) *)
delete_from_index(idx, v, rid) ==
    IF ~IndexTruthy(idx) \/ v = Null THEN idx
    ELSE [idx EXCEPT ![v] = SelectSeq(@, LAMBDA x : x # rid)]

(* IndexManager.search_index *)
search_index(idx, v) == IF IndexTruthy(idx) THEN idx[v] ELSE <<>>

(* The per-row index maintenance of update and of delete with a condition,
   over the row ids rids in the order the loop visits them: update calls
   update_index (delete old, insert new); delete calls delete_from_index
   only, which is the same loop with new = Null. *)
RECURSIVE IndexLoop(_, _, _, _)
IndexLoop(idx, dat, rids, new) ==
    IF rids = <<>> THEN idx
    ELSE LET rid == Head(rids) IN
         IndexLoop(insert_to_index(delete_from_index(idx, dat[rid + 1], rid), new, rid),
                   dat, Tail(rids), new)

(* the matching row ids in ascending order (reversed when down) *)
RowIdSeq(dat, q, down) ==
    LET n == Len(dat)
        all == [j \in 1..n |-> IF down THEN n - j ELSE j - 1]
    IN SelectSeq(all, LAMBDA r : (r + 1) \in Matching(dat, q))

(* QueryCache._make_key over select's cache_key: QueryBuilder.to_dict leaves
   the conditions out, so the digest depends on the condition only through
   "is it None".  Distinct preimages give distinct sha256 digests. *)
QueryCache_make_key(q) == IF q = NoCond THEN "sha256(condition=None)" ELSE "sha256(condition=to_dict)"
CacheKeys == {QueryCache_make_key(q) : q \in Conds}

NoEntry == [set |-> FALSE, result |-> <<>>, old |-> FALSE]

(* "table_name in str(key)": the key is a hex digest and the table name
   "users" has letters outside 0-9a-f *)
NameInKey(key) == FALSE

(* QueryCache.invalidate_table, as the last step of a write; the entries that
   survive it were stored before the write *)
invalidate_table(c) ==
    [k \in DOMAIN c |->
        IF c[k].set /\ NameInKey(k) THEN NoEntry ELSE [c[k] EXCEPT !.old = c[k].set]]

ColCallRecord(op, q, result, cached, old) ==
    [op |-> op, q |-> q, result |-> result, cached |-> cached, old |-> old]

(* ColumnarDB.insert(table, {c: v}) *)
ColInsert(v) ==
    /\ Len(colData) < MaxColRows
    /\ colData' = Append(colData, v)
    /\ colIndex' = insert_to_index(colIndex, v, Len(colData))
    /\ qcache' = invalidate_table(qcache)
    /\ colCall' = ColCallRecord("insert", NoCond, <<>>, FALSE, FALSE)

(* ColumnarDB.update(table, {c: v}, condition) *)
ColUpdate(q, v) ==
    /\ colIndex' = IndexLoop(colIndex, colData, RowIdSeq(colData, q, FALSE), v)
    /\ colData' = [i \in 1..Len(colData) |->
                       IF i \in Matching(colData, q) THEN v ELSE colData[i]]
    /\ qcache' = invalidate_table(qcache)
    /\ colCall' = ColCallRecord("update", q, <<>>, FALSE, FALSE)

(* ColumnarDB.delete(table, condition) *)
ColDelete(q) ==
    /\ IF q = NoCond
       THEN /\ colData' = <<>>
            /\ colIndex' = [v \in ColVals |-> <<>>]
       ELSE /\ colData' = SelectSeq(colData, LAMBDA x : x # q)
            /\ colIndex' = IndexLoop(colIndex, colData, RowIdSeq(colData, q, TRUE), Null)
    /\ qcache' = invalidate_table(qcache)
    /\ colCall' = ColCallRecord("delete", q, <<>>, FALSE, FALSE)

(* ColumnarDB.select(table, condition=q) *)
ColSelect(q) ==
    LET key == QueryCache_make_key(q)
        rows == SelectSeq(colData, LAMBDA x : q = NoCond \/ x = q)
    IN IF qcache[key].set
       THEN /\ colCall' = ColCallRecord("select", q, qcache[key].result, TRUE, qcache[key].old)
            /\ UNCHANGED <<colData, colIndex, qcache>>
       ELSE /\ qcache' = [qcache EXCEPT ![key] = [set |-> TRUE, result |-> rows, old |-> FALSE]]
            /\ colCall' = ColCallRecord("select", q, rows, FALSE, FALSE)
            /\ UNCHANGED <<colData, colIndex>>

InitCol ==
    /\ colData = <<>>
    /\ colIndex = [v \in ColVals |-> <<>>]
    /\ qcache = [k \in CacheKeys |-> NoEntry]
    /\ colCall = ColCallRecord("create_table", NoCond, <<>>, FALSE, FALSE)

NextCol ==
    \/ \E v \in ColVals : ColInsert(v) /\ UNCHANGED notColVars
    \/ \E q \in Conds, v \in ColVals : ColUpdate(q, v) /\ UNCHANGED notColVars
    \/ \E q \in Conds : ColDelete(q) /\ UNCHANGED notColVars
    \/ \E q \in Conds : ColSelect(q) /\ UNCHANGED notColVars

(* ================= DirectFlushManager: reads, delete, compact ========= *)
DfRowIds == 0..MaxDfRow
(* the row {'__deleted__': True} that delete() stores *)
DeletedRow == -1

(* DirectFlushReader.get(row_id) on one segment *)
DirectFlushReader_get(seg, r) ==
    IF \E j \in 1..Len(seg) : seg[j].row_id = r
    THEN seg[CHOOSE j \in 1..Len(seg) : seg[j].row_id = r].pv
    ELSE NoRow

(* the segments that hold an entry for row id r *)
SegsWith(r) == {i \in 1..Len(segs) : DirectFlushReader_get(segs[i], r) # NoRow}

(* get(table, r): the newest segment whose id range covers r and that has r *)
DirectFlushManager_get(r) ==
    IF SegsWith(r) = {} THEN NoRow ELSE DirectFlushReader_get(segs[Max(SegsWith(r))], r)

(* scan(table): the data scan() reports for row id r (NoRow: r is not in the
   result); segments are read in list order and later ones overwrite *)
DirectFlushManager_scan(r) ==
    IF SegsWith(r) = {} THEN NoRow ELSE DirectFlushReader_get(segs[Max(SegsWith(r))], r)

(* find_by_column(table, col, v) finds row r *)
DirectFlushManager_find_by_column(r, v) ==
    DirectFlushManager_scan(r) # DeletedRow /\ DirectFlushManager_scan(r) = v

(* compact(table): rewrite the live rows of scan() into one segment *)
DirectFlushManager_compact ==
    LET ids == [j \in 1..rowCounter |-> j - 1]
        live == SelectSeq(ids, LAMBDA r : DirectFlushManager_scan(r) # NoRow
                                           /\ DirectFlushManager_scan(r) # DeletedRow)
    IN IF live = <<>> THEN segs
       ELSE << [j \in 1..Len(live) |->
                   [row_id |-> live[j], pv |-> DirectFlushManager_scan(live[j])]] >>

(* insert(table, r, {v: pv}) through the manager's API *)
DfInsert(r, pv) ==
    /\ Len(segs) < MaxSegs
    /\ DirectFlushManager_insert(r, pv)
    /\ dfTomb' = dfTomb \ {r}
    /\ dfLatest' = [dfLatest EXCEPT ![r] = pv]
    /\ dfCompacted' = FALSE
    /\ UNCHANGED <<ring, ringNodes, guildCache, issuedDirect, lastWrite>>

(* delete(table, r) *)
DfDelete(r) ==
    /\ Len(segs) < MaxSegs
    /\ DirectFlushManager_insert(r, DeletedRow)
    /\ dfTomb' = dfTomb \cup {r}
    /\ dfCompacted' = FALSE
    /\ UNCHANGED <<dfLatest, ring, ringNodes, guildCache, issuedDirect, lastWrite>>

(* compact(table) *)
DfCompact ==
    /\ segs # <<>>
    /\ segs' = DirectFlushManager_compact
    /\ dfCompacted' = TRUE
    /\ UNCHANGED <<dfTomb, dfLatest, rowCounter, ring, ringNodes, guildCache,
                   issuedDirect, lastWrite>>

InitDf ==
    /\ dfTomb = {}
    /\ dfLatest = [r \in DfRowIds |-> NoRow]
    /\ dfCompacted = FALSE

NextDf ==
    \/ \E r \in DfRowIds, pv \in PVals : DfInsert(r, pv) /\ UNCHANGED notDfVars
    \/ \E r \in DfRowIds : DfDelete(r) /\ UNCHANGED notDfVars
    \/ DfCompact /\ UNCHANGED notDfVars

(* ========== DistributedColumnarDB: the two storage modes side by side == *)
(* select(table) with a cold query cache: the rows in the order returned;
   direct: the engine was built with use_direct_flush=True, else False *)
DistributedColumnarDB_select(direct) ==
    IF direct
    THEN SelectSeq([j \in 1..rowCounter |-> DirectFlushManager_scan(j - 1)],
                   LAMBDA x : x # NoRow)
    ELSE SelectSeq([j \in 1..(MaxRowId + 1) |-> MemTableManager_scan(j - 1)],
                   LAMBDA x : x # NoRow)

(* sum(s.entry_count for s in segments) *)
RECURSIVE DirectFlushManager_get_entry_count(_)
DirectFlushManager_get_entry_count(ss) ==
    IF ss = <<>> THEN 0 ELSE Len(Head(ss)) + DirectFlushManager_get_entry_count(Tail(ss))

(* count(table) without a condition *)
DistributedColumnarDB_count(direct) ==
    IF direct THEN DirectFlushManager_get_entry_count(segs)
    ELSE table_row_count + Cardinality(DOMAIN get_memtable.data)

(* delete(table) without a condition in memtable mode: the engine empties
   Table.data and the indexes; the memtable manager is not touched *)
LocalDeleteAll == UNCHANGED memVars

(* the same insert on both engines *)
ModesInsert(v) ==
    /\ LocalInsert(v)
    /\ ClientInsert(v, TRUE)

(* the same delete(table) on both engines *)
ModesDeleteAll ==
    /\ LocalDeleteAll
    /\ ClientDeleteAll

NextModes ==
    \/ \E v \in Vals \cap PVals : ModesInsert(v) /\ UNCHANGED <<txnVars, walVars, laterVars>>
    \/ ModesDeleteAll /\ UNCHANGED <<txnVars, walVars, laterVars>>
    \/ FlushMemtable /\ UNCHANGED notMemVars
    \/ FlushMemtableFails /\ UNCHANGED notMemVars

(* ============== DistributedCache and LRUCache on one node ============= *)
NoCached == [present |-> FALSE, data |-> 0, fetched_at |-> 0, ttl |-> 0]

(* how a cache call ended; hit: the key was found in the cache (for the
   miss records: found, but expired); age, ttl: of the entry returned *)
DcCall(op, hit, data, age, ttl) ==
    [op |-> op, hit |-> hit, data |-> data, age |-> age, ttl |-> ttl]

(* an is_expired that never reports expiry *)
is_expired_Never(e) == FALSE

(* CachedData.is_expired; the same test in LRUCache.get on created_at *)
CachedData_is_expired(e) == dcNow - e.fetched_at > e.ttl

(* time passes *)
Tick ==
    /\ dcNow < MaxClock
    /\ dcNow' = dcNow + 1
    /\ UNCHANGED <<ownerVer, dcache, fetchPc, fetchData, inbox, lru, invalidatedVer, dcLast>>

(* DistributedCache.get up to the fetch: the locked lookup; a live entry is
   returned, an expired one is deleted and, like a missing one, makes the
   task fetch from the owner *)
DcGetStart ==
    /\ fetchPc = "idle"
    /\ IF dcache.present /\ ~CachedData_is_expired(dcache)
       THEN /\ dcLast' = DcCall("get", TRUE, dcache.data, dcNow - dcache.fetched_at, dcache.ttl)
            /\ UNCHANGED <<dcache, fetchPc>>
       ELSE /\ dcache' = NoCached
            /\ fetchPc' = "fetching"
            /\ dcLast' = DcCall("get_miss", dcache.present, 0, 0, 0)
    /\ UNCHANGED <<ownerVer, dcNow, fetchData, inbox, lru, invalidatedVer>>

(* node_client.fetch_guild_data: the owner answers with its current data *)
FetchReply ==
    /\ fetchPc = "fetching"
    /\ fetchData' = ownerVer
    /\ fetchPc' = "fetched"
    /\ UNCHANGED <<ownerVer, dcache, dcNow, inbox, lru, invalidatedVer, dcLast>>

(* DistributedCache.get after the fetch: set() stores the data, get returns it *)
DcGetSet ==
    /\ fetchPc = "fetched"
    /\ dcache' = [present |-> TRUE, data |-> fetchData, fetched_at |-> dcNow, ttl |-> DcTtl]
    /\ fetchPc' = "idle"
    /\ dcLast' = DcCall("get_fetched", FALSE, fetchData, 0, DcTtl)
    /\ UNCHANGED <<ownerVer, dcNow, fetchData, inbox, lru, invalidatedVer>>

(* DistributedCache.invalidate(P, T), called for the owner's latest write *)
DcInvalidate ==
    /\ invalidatedVer < ownerVer
    /\ dcache' = NoCached
    /\ invalidatedVer' = ownerVer
    /\ dcLast' = DcCall("invalidate", FALSE, 0, 0, 0)
    /\ UNCHANGED <<ownerVer, dcNow, fetchPc, fetchData, inbox, lru>>

(* a local write on the owner, then broadcast_invalidation: registry.broadcast
   sends one invalidate_cache frame to the peer *)
OwnerWrite ==
    /\ ownerVer < MaxVer
    /\ ownerVer' = ownerVer + 1
    /\ inbox' = Append(inbox, "invalidate_cache")
    /\ UNCHANGED <<dcache, dcNow, fetchPc, fetchData, lru, invalidatedVer, dcLast>>

(* NodeRegistry._process_peer_message on the frame at the head of the
   connection: no branch handles the type invalidate_cache *)
PeerProcessFrame ==
    /\ inbox # <<>>
    /\ inbox' = Tail(inbox)
    /\ dcLast' = DcCall(Head(inbox), FALSE, 0, 0, 0)
    /\ UNCHANGED <<ownerVer, dcache, dcNow, fetchPc, fetchData, lru, invalidatedVer>>

(* LRUCache.set(key, value) *)
LruSet ==
    /\ lru' = [present |-> TRUE, data |-> 0, fetched_at |-> dcNow, ttl |-> LruTtl]
    /\ dcLast' = DcCall("lru_set", FALSE, 0, 0, 0)
    /\ UNCHANGED <<ownerVer, dcache, dcNow, fetchPc, fetchData, inbox, invalidatedVer>>

(* LRUCache.get(key) *)
LruGet ==
    /\ IF lru.present /\ ~CachedData_is_expired(lru)
       THEN /\ dcLast' = DcCall("lru_get", TRUE, 0, dcNow - lru.fetched_at, lru.ttl)
            /\ UNCHANGED lru
       ELSE /\ lru' = NoCached
            /\ dcLast' = DcCall("lru_miss", lru.present, 0, 0, 0)
    /\ UNCHANGED <<ownerVer, dcache, dcNow, fetchPc, fetchData, inbox, invalidatedVer>>

InitDc ==
    /\ ownerVer = 0
    /\ dcache = NoCached
    /\ dcNow = 0
    /\ fetchPc = "idle"
    /\ fetchData = 0
    /\ inbox = <<>>
    /\ lru = NoCached
    /\ invalidatedVer = 0
    /\ dcLast = DcCall("none", FALSE, 0, 0, 0)

NextDc ==
    \/ Tick /\ UNCHANGED notDcVars
    \/ DcGetStart /\ UNCHANGED notDcVars
    \/ FetchReply /\ UNCHANGED notDcVars
    \/ DcGetSet /\ UNCHANGED notDcVars
    \/ DcInvalidate /\ UNCHANGED notDcVars
    \/ OwnerWrite /\ UNCHANGED notDcVars
    \/ PeerProcessFrame /\ UNCHANGED notDcVars
    \/ LruSet /\ UNCHANGED notDcVars
    \/ LruGet /\ UNCHANGED notDcVars

(* ============================= NodeClient ============================= *)
NcTasks == 1..MaxNcTasks
NcNodes == 1..MaxNcNodes
MAX_RETRIES == 3

(* no request() call in progress *)
NcIdle == [pc |-> "idle", node |-> 0, attempt |-> 0, fut |-> "none", failedBy |-> 0]

(* how request() of task k to node n ended; blacklisted: n is in _failed_nodes
   when the call returns or raises *)
NcResult(outcome, k, n, cause, failed) ==
    [outcome |-> outcome, node |-> n, attempts |-> ncReq[k].attempt + 1,
     cause |-> cause, blacklisted |-> n \in failed]

(* request(): an attempt failed with a timeout or an error response; the
   finally clause drops the future, then the loop retries or the call raises *)
NcFail(k, cause) ==
    IF ncReq[k].attempt < MAX_RETRIES - 1
    THEN /\ ncReq' = [ncReq EXCEPT ![k] = [@ EXCEPT !.pc = "retry", !.attempt = @ + 1,
                                                    !.fut = "none", !.failedBy = 0]]
         /\ UNCHANGED ncLast
    ELSE /\ ncReq' = [ncReq EXCEPT ![k] = NcIdle]
         /\ ncLast' = NcResult("TimeoutError", k, ncReq[k].node, cause, ncFailed)

(* request(): the start of an attempt of task k to node n: the future is
   registered, _get_connection returns or opens the connection (connects: one
   of its MAX_RETRIES connection attempts succeeds) and the frame is sent *)
NcAttempt(k, n, connects) ==
    /\ \/ ncReq[k].pc = "idle"
       \/ ncReq[k].pc = "retry" /\ n = ncReq[k].node
    /\ IF n \notin ncFailed /\ (ncConn[n] \/ connects)
       THEN /\ ncConn' = [ncConn EXCEPT ![n] = TRUE]
            /\ ncReq' = [ncReq EXCEPT ![k] = [@ EXCEPT !.pc = "waiting", !.node = n,
                                                       !.fut = "pending"]]
            /\ UNCHANGED <<ncFailed, ncLast>>
       ELSE /\ ncFailed' = ncFailed \cup {n}
            /\ ncReq' = [ncReq EXCEPT ![k] = NcIdle]
            /\ ncLast' = NcResult("TimeoutError", k, n, "connect", ncFailed \cup {n})
            /\ UNCHANGED ncConn

(* request(): the request_id of the frame that attempt a of task k sends, and
   the key under which the future of that attempt is in _pending.  An id is
   named by the task and the attempt that drew it with uuid4().  The request
   dict is built once before the loop with the first id; before a retry only
   the local variable request_id is bound to a new one. *)
frame_request_id(k, a) == <<k, 0>>

pending_request_id(k, a) == <<k, a>>

(* _handle_responses resolves the future of task k with the peer's response;
   the frame of a retry carries the first attempt's request_id, which is no
   longer in _pending, so only the first attempt can be answered *)
NcResponse(k, err) ==
    /\ ncReq[k].pc = "waiting" /\ ncReq[k].fut = "pending"
    /\ ncReq[k].attempt = 0
    /\ ncConn[ncReq[k].node]
    /\ IF err
       THEN NcFail(k, "error_response")
       ELSE /\ ncReq' = [ncReq EXCEPT ![k] = NcIdle]
            /\ ncLast' = NcResult("ok", k, ncReq[k].node, "none", ncFailed)
    /\ UNCHANGED <<ncConn, ncFailed>>

(* asyncio.wait_for(future, timeout) times out *)
NcTimeout(k) ==
    /\ ncReq[k].pc = "waiting" /\ ncReq[k].fut = "pending"
    /\ NcFail(k, "timeout")
    /\ UNCHANGED <<ncConn, ncFailed>>

(* the connection to address a closes: the finally clause of
   _handle_responses(a, ws) forgets the connection and sets ConnectionError
   on every future in _pending that is not done *)
NcConnectionClosed(a) ==
    /\ ncConn[a]
    /\ ncConn' = [ncConn EXCEPT ![a] = FALSE]
    /\ ncReq' = [k \in NcTasks |->
                    IF ncReq[k].fut = "pending"
                    THEN [ncReq[k] EXCEPT !.fut = "ConnectionError", !.failedBy = a]
                    ELSE ncReq[k]]
    /\ UNCHANGED <<ncFailed, ncLast>>

(* request(): the awaited future raised ConnectionError: break, then raise *)
NcConnectionError(k) ==
    /\ ncReq[k].pc = "waiting" /\ ncReq[k].fut = "ConnectionError"
    /\ ncReq' = [ncReq EXCEPT ![k] = NcIdle]
    /\ ncLast' = NcResult("TimeoutError", k, ncReq[k].node, "connection", ncFailed)
    /\ UNCHANGED <<ncConn, ncFailed>>

InitNc ==
    /\ ncConn = [a \in NcNodes |-> FALSE]
    /\ ncFailed = {}
    /\ ncReq = [k \in NcTasks |-> NcIdle]
    /\ ncLast = [outcome |-> "none", node |-> 0, attempts |-> 0, cause |-> "none",
                 blacklisted |-> FALSE]

NextNc ==
    \/ \E k \in NcTasks, n \in NcNodes, c \in BOOLEAN : NcAttempt(k, n, c) /\ UNCHANGED notNcVars
    \/ \E k \in NcTasks, e \in BOOLEAN : NcResponse(k, e) /\ UNCHANGED notNcVars
    \/ \E k \in NcTasks : NcTimeout(k) /\ UNCHANGED notNcVars
    \/ \E a \in NcNodes : NcConnectionClosed(a) /\ UNCHANGED notNcVars
    \/ \E k \in NcTasks : NcConnectionError(k) /\ UNCHANGED notNcVars

(* ================= NodeRegistry: peers and the cleanup ================= *)
RegNodes == (Local + 1)..(Local + MaxRegPeers)

(* what the steps of the registry change of the ring's owner *)
ringVars == <<ring, ringNodes, guildCache>>
notRegVars == <<memVars, txnVars, walVars, colVars, dfVars, dcVars, ncVars, hrVars, fanVars,
                engVars, fsVars, cpVars, dfcVars, dtVars,
                segs, rowCounter, issuedDirect, lastWrite, recVars, lruVars>>

NoFetch == [g |-> 0, owner |-> NoNode]

(* the registry, its ring and the cache as one value, for the loops *)
RegState(p, r, rn, gc, c, lv) ==
    [peers |-> p, ring |-> r, ringNodes |-> rn, guildCache |-> gc,
     cache |-> c, leave |-> lv]

RegNow == RegState(peers, ring, ringNodes, guildCache, nodeCache,
                   [n \in RegNodes |-> 0])

(* the history of a step that removes peers: the clock, the peer map and
   the cache before the step, and the 'leave' calls it made *)
RegRecord(op, st) ==
    [op |-> op, now |-> regNow, peers |-> peers, hb |-> lastHeartbeat,
     cache |-> nodeCache, leave |-> st.leave]

(* the history after any other step *)
NoRegStep ==
    [op |-> "none", now |-> 0, peers |-> {}, hb |-> <<>>,
     cache |-> [g \in PVals |-> NoNode], leave |-> [n \in RegNodes |-> 0]]

(* ConsistentHashRing.remove_node on the state st *)
ConsistentHashRing_remove_node(st, n) ==
    IF n \notin st.ringNodes THEN st
    ELSE [st EXCEPT !.ringNodes = @ \ {n},
                    !.ring = RingWithout(@, n),
                    !.guildCache = [g \in PVals |-> NoNode]]

(* ConsistentHashRing.add_node on the state st *)
ConsistentHashRing_add_node(st, n) ==
    IF n \in st.ringNodes THEN st
    ELSE [st EXCEPT !.ringNodes = @ \cup {n},
                    !.ring = AddVnodes(@, n, 0),
                    !.guildCache = [g \in PVals |-> NoNode]]

(* DistributedCache.invalidate_from_node: the cache without the entries
   whose source_node is n *)
invalidate_from_node_KeepsAll(c, n) == c

DistributedCache_invalidate_from_node(c, n) ==
    [g \in DOMAIN c |-> IF c[g] = n THEN NoNode ELSE c[g]]

(* ClusterManager._on_node_change, the one callback registered with
   on_node_change (ClusterManager.start); lv counts its 'leave' calls *)
ClusterManager_on_node_change(st, event, n) ==
    IF event = "leave"
    THEN [st EXCEPT !.cache = DistributedCache_invalidate_from_node(@, n),
                    !.leave[n] = @ + 1]
    ELSE st

(* NodeRegistry._remove_peer *)
NodeRegistry_remove_peer(st, n) ==
    IF n \notin st.peers THEN st
    ELSE ClusterManager_on_node_change(
             ConsistentHashRing_remove_node([st EXCEPT !.peers = @ \ {n}], n),
             "leave", n)

(* _cleanup_loop: "for node_id in dead_nodes: await self._remove_peer(node_id)" *)
RECURSIVE RemoveDead(_, _)
RemoveDead(st, dead) ==
    IF dead = {} THEN st
    ELSE LET n == Min(dead)
         IN  RemoveDead(NodeRegistry_remove_peer(st, n), dead \ {n})

(* _cleanup_loop: the peers collected into dead_nodes *)
dead_nodes == {n \in peers : regNow - lastHeartbeat[n] > HbTimeout}

(* the state st written back *)
RegApply(st) ==
    /\ peers' = st.peers
    /\ ring' = st.ring
    /\ ringNodes' = st.ringNodes
    /\ guildCache' = st.guildCache
    /\ nodeCache' = st.cache

(* time passes *)
RegTick ==
    /\ regNow < MaxRegClock
    /\ regNow' = regNow + 1
    /\ regLast' = NoRegStep
    /\ UNCHANGED <<peers, lastHeartbeat, nodeCache, regFetch, ringVars>>

(* _process_peer_message, 'register' / 'cluster_state' -> _add_peer; hb is
   the last_heartbeat that the frame reports (NodeInfo.from_dict) *)
RegAddPeer(n, hb) ==
    /\ n # Local
    /\ RegApply(ConsistentHashRing_add_node([RegNow EXCEPT !.peers = @ \cup {n}], n))
    /\ lastHeartbeat' = [k \in peers \cup {n} |-> IF k = n THEN hb ELSE lastHeartbeat[k]]
    /\ regLast' = NoRegStep
    /\ UNCHANGED <<regNow, regFetch>>

(* _process_peer_message, 'heartbeat' *)
RegHeartbeat(n) ==
    /\ n \in peers
    /\ lastHeartbeat' = [lastHeartbeat EXCEPT ![n] = regNow]
    /\ regLast' = NoRegStep
    /\ UNCHANGED <<peers, regNow, nodeCache, regFetch, ringVars>>

(* _process_peer_message, 'node_leave' -> _remove_peer *)
RegNodeLeave(n) ==
    /\ n \in peers
    /\ RegApply(NodeRegistry_remove_peer(RegNow, n))
    /\ lastHeartbeat' = [k \in peers \ {n} |-> lastHeartbeat[k]]
    /\ regLast' = RegRecord("node_leave", NodeRegistry_remove_peer(RegNow, n))
    /\ UNCHANGED <<regNow, regFetch>>

(* one cycle of _cleanup_loop; no step of it waits (the locks are free), so
   no other task runs between the collection and the removals *)
RegCleanup ==
    LET st == RemoveDead(RegNow, dead_nodes)
    IN  /\ RegApply(st)
        /\ lastHeartbeat' = [k \in st.peers |-> lastHeartbeat[k]]
        /\ regLast' = RegRecord("cleanup", st)
        /\ UNCHANGED <<regNow, regFetch>>

(* DistributedCache.get(g, table): a miss; the owner is looked up and, when
   it is another node, fetch_guild_data is sent to it *)
RegGetStart(g) ==
    /\ regFetch = NoFetch
    /\ nodeCache[g] = NoNode
    /\ guildCache' = CacheAfterLookup(g)
    /\ regFetch' = IF get_node_for_guild(g) \in {NoNode, Local} THEN NoFetch
                   ELSE [g |-> g, owner |-> get_node_for_guild(g)]
    /\ regLast' = NoRegStep
    /\ UNCHANGED <<peers, lastHeartbeat, regNow, nodeCache, ring, ringNodes>>

(* the fetch returns; with data, get calls set(g, table, data, owner.node_id) *)
RegGetSet(data) ==
    /\ regFetch # NoFetch
    /\ nodeCache' = IF data THEN [nodeCache EXCEPT ![regFetch.g] = regFetch.owner]
                    ELSE nodeCache
    /\ regFetch' = NoFetch
    /\ regLast' = NoRegStep
    /\ UNCHANGED <<peers, lastHeartbeat, regNow, ringVars>>

InitReg ==
    /\ peers = {}
    /\ lastHeartbeat = <<>>
    /\ regNow = 0
    /\ nodeCache = [g \in PVals |-> NoNode]
    /\ regFetch = NoFetch
    /\ regLast = NoRegStep

NextReg ==
    \/ RegTick /\ UNCHANGED notRegVars
    \/ \E n \in RegNodes, hb \in 0..MaxRegClock :
           hb <= regNow /\ RegAddPeer(n, hb) /\ UNCHANGED notRegVars
    \/ \E n \in RegNodes : RegHeartbeat(n) /\ UNCHANGED notRegVars
    \/ \E n \in RegNodes : RegNodeLeave(n) /\ UNCHANGED notRegVars
    \/ RegCleanup /\ UNCHANGED notRegVars
    \/ \E g \in PVals : RegGetStart(g) /\ UNCHANGED notRegVars
    \/ \E data \in BOOLEAN : RegGetSet(data) /\ UNCHANGED notRegVars

(* ============== ConsistentHashRing with weighted nodes ================= *)
RingNodeIds == 1..MaxRingNodes
HalfWeights == 1..MaxHalfWeight

notHrVars == <<firstVars, colVars, dfVars, dcVars, ncVars, regVars, fanVars, engVars, fsVars, cpVars, dfcVars, dtVars, recVars, lruVars>>

(* vnode_count = max(1, int(default_virtual_nodes * weight)), weight = w/2 *)
vnode_count(w) == Max({1, (VirtualNodes * w) \div 2})

(* the loop "for i in range(vnode_count): bisect.insort(...)" from i on *)
RECURSIVE InsortVnodes(_, _, _, _)
InsortVnodes(seq, n, i, cnt) ==
    IF i >= cnt THEN seq
    ELSE InsortVnodes(insort(seq, <<hash_vnode(n, i), n>>), n, i + 1, cnt)

NoMemo == [g \in PVals |-> NoNode]

EmptyRing == [ring |-> <<>>, weights |-> <<>>, memo |-> NoMemo]

(* ConsistentHashRing.add_node(node, weight) *)
add_node_KeepsMemo(h, n, w) ==
    IF n \in DOMAIN h.weights THEN h
    ELSE [h EXCEPT !.ring = InsortVnodes(@, n, 0, vnode_count(w)),
                   !.weights = [k \in DOMAIN h.weights \cup {n} |->
                                   IF k = n THEN w ELSE h.weights[k]]]

ConsistentHashRing_add(h, n, w) ==
    IF n \in DOMAIN h.weights THEN h
    ELSE [ring |-> InsortVnodes(h.ring, n, 0, vnode_count(w)),
          weights |-> [k \in DOMAIN h.weights \cup {n} |->
                          IF k = n THEN w ELSE h.weights[k]],
          memo |-> NoMemo]

(* ConsistentHashRing.remove_node(node_id) *)
ConsistentHashRing_remove(h, n) ==
    IF n \notin DOMAIN h.weights THEN h
    ELSE [ring |-> RingWithout(h.ring, n),
          weights |-> [k \in DOMAIN h.weights \ {n} |-> h.weights[k]],
          memo |-> NoMemo]

(* ConsistentHashRing.update_node_weight(node_id, new_weight) *)
update_node_weight_KeepsMemo(h, n, w) ==
    IF n \notin DOMAIN h.weights THEN h
    ELSE [h EXCEPT !.ring = InsortVnodes(RingWithout(h.ring, n), n, 0, vnode_count(w)),
                   !.weights = [h.weights EXCEPT ![n] = w]]

ConsistentHashRing_update_node_weight(h, n, w) ==
    IF n \notin DOMAIN h.weights THEN h
    ELSE [ring |-> InsortVnodes(RingWithout(h.ring, n), n, 0, vnode_count(w)),
          weights |-> [h.weights EXCEPT ![n] = w],
          memo |-> NoMemo]

(* bisect.bisect_left(self._ring, (hash_value, "")) with the wrap-around *)
RingOwnerAt(seq, g) ==
    LET idx == Cardinality({i \in 1..Len(seq) : seq[i][1] < hash_guild(g)})
    IN  IF idx >= Len(seq) THEN seq[1][2] ELSE seq[idx + 1][2]

(* ConsistentHashRing.get_node_for_guild: the node returned, NoNode for None *)
ConsistentHashRing_owner(h, g) ==
    IF h.memo[g] # NoNode /\ h.memo[g] \in DOMAIN h.weights THEN h.memo[g]
    ELSE IF h.ring = <<>> THEN NoNode
    ELSE IF RingOwnerAt(h.ring, g) \in DOMAIN h.weights THEN RingOwnerAt(h.ring, g)
    ELSE NoNode

(* ConsistentHashRing.get_node_for_guild: the ring after the call *)
ConsistentHashRing_lookup(h, g) ==
    IF (h.memo[g] # NoNode /\ h.memo[g] \in DOMAIN h.weights) \/ h.ring = <<>> THEN h
    ELSE [h EXCEPT !.memo[g] = RingOwnerAt(h.ring, g)]

(* a fresh ring to which the nodes of weights are added in ascending or in
   descending order of their ids *)
RECURSIVE RingBuilt(_, _, _)
RingBuilt(h, weights, asc) ==
    IF DOMAIN weights = {} THEN h
    ELSE LET n == IF asc THEN Min(DOMAIN weights) ELSE Max(DOMAIN weights)
         IN  RingBuilt(ConsistentHashRing_add(h, n, weights[n]),
                       [k \in DOMAIN weights \ {n} |-> weights[k]], asc)

HrAddNode(n, w) ==
    /\ hashRing' = ConsistentHashRing_add(hashRing, n, w)
    /\ hrHist' = [hrHist EXCEPT !.outOfOrder =
                      @ \/ (n \notin DOMAIN hashRing.weights
                            /\ \E k \in DOMAIN hashRing.weights : k > n)]

HrRemoveNode(n) ==
    /\ n \in DOMAIN hashRing.weights
    /\ hashRing' = ConsistentHashRing_remove(hashRing, n)
    /\ hrHist' = [hrHist EXCEPT !.changed = TRUE]

HrUpdateWeight(n, w) ==
    /\ n \in DOMAIN hashRing.weights
    /\ hashRing' = ConsistentHashRing_update_node_weight(hashRing, n, w)
    /\ hrHist' = [hrHist EXCEPT !.changed = TRUE]

HrGetNodeForGuild(g) ==
    /\ hashRing' = ConsistentHashRing_lookup(hashRing, g)
    /\ UNCHANGED hrHist

InitHr ==
    /\ hashRing = EmptyRing
    /\ hrHist = [changed |-> FALSE, outOfOrder |-> FALSE]

NextHr ==
    \/ \E n \in RingNodeIds, w \in HalfWeights : HrAddNode(n, w) /\ UNCHANGED notHrVars
    \/ \E n \in RingNodeIds : HrRemoveNode(n) /\ UNCHANGED notHrVars
    \/ \E n \in RingNodeIds, w \in HalfWeights : HrUpdateWeight(n, w) /\ UNCHANGED notHrVars
    \/ \E g \in PVals : HrGetNodeForGuild(g) /\ UNCHANGED notHrVars

(* ==================== ClusterManager: fan-out reads ==================== *)
FanPeerIds == 1..MaxFanPeers
(* no 'cluster_id' in NodeInfo.metadata *)
NoCid == 0
FanNodes == [cid : {NoCid} \cup (1..MaxFanCid), host : 1..MaxFanHosts, healthy : BOOLEAN]
FanRegs == UNION {[S -> FanNodes] : S \in SUBSET FanPeerIds}

notFanVars == <<firstVars, colVars, dfVars, dcVars, ncVars, regVars, hrVars, engVars, fsVars, cpVars, dfcVars, dtVars, recVars, lruVars>>

(* node.metadata.get('cluster_id', node.host) *)
cluster_id(node) == IF node.cid # NoCid THEN node.cid ELSE node.host

(* _group_nodes_by_cluster: cluster id -> its nodes *)
group_nodes_by_cluster(reg) ==
    [c \in {cluster_id(reg[p]) : p \in DOMAIN reg} |->
        {p \in DOMAIN reg : cluster_id(reg[p]) = c}]

(* healthy_nodes = [n for n in nodes if n.is_healthy()] *)
healthy_nodes(reg, nodes) == {p \in nodes : reg[p].healthy}

(* _select_random_node_per_cluster: every list that random.choice can give *)
select_All(reg) == {DOMAIN reg}

select_random_node_per_cluster(reg) ==
    LET clusters == group_nodes_by_cluster(reg)
        withHealthy == {c \in DOMAIN clusters : healthy_nodes(reg, clusters[c]) # {}}
    IN  {{f[c] : c \in withHealthy} :
            f \in {h \in [withHealthy -> DOMAIN reg] :
                      \A c \in withHealthy : h[c] \in healthy_nodes(reg, clusters[c])}}

NoSelection == [op |-> "none", queried |-> {}]

(* _process_peer_message 'register' -> _add_peer: the peer map holds node *)
FanRegister(p, node) ==
    /\ fanReg' = [k \in DOMAIN fanReg \cup {p} |-> IF k = p THEN node ELSE fanReg[k]]
    /\ selLast' = NoSelection
    /\ UNCHANGED <<fanCall, fanTasks, fanOrder>>

(* a heartbeat arrives or ages, the peer's state changes: is_healthy() flips *)
FanHealth(p) ==
    /\ p \in DOMAIN fanReg
    /\ fanReg' = [fanReg EXCEPT ![p].healthy = ~@]
    /\ selLast' = NoSelection
    /\ UNCHANGED <<fanCall, fanTasks, fanOrder>>

(* fan_out_read / fan_out_query up to the creation of the query tasks *)
FanSelect(op) ==
    /\ \E sel \in select_random_node_per_cluster(fanReg) :
           selLast' = [op |-> op, queried |-> sel]
    /\ UNCHANGED <<fanReg, fanCall, fanTasks, fanOrder>>

(* ------------------------- rows and the merge -------------------------- *)
(* a row: its 'id' and 'row_id' items (0: no such item) and its other item *)
RowId1 == [id |-> 1, row_id |-> 0, v |-> 1]
RowId1Other == [id |-> 1, row_id |-> 1, v |-> 2]
RowRid1 == [id |-> 0, row_id |-> 1, v |-> 1]
RowPlain == [id |-> 0, row_id |-> 0, v |-> 1]

(* the lists a reader returns *)
FanResults == {<<>>, <<RowId1>>, <<RowId1Other, RowRid1>>, <<RowPlain, RowPlain>>,
               <<RowRid1, RowPlain>>}

(* _generate_row_key *)
row_key_ByContent(row) == <<"md5", row.id, row.row_id, row.v>>

generate_row_key(row) ==
    IF row.id # 0 THEN <<"id", row.id, 0, 0>>
    ELSE IF row.row_id # 0 THEN <<"row_id", row.row_id, 0, 0>>
    ELSE <<"md5", 0, 0, row.v>>

(* the loop "for row in result": merged after the rows from i on *)
RECURSIVE MergeRows(_, _, _)
MergeRows(rows, i, merged) ==
    IF i > Len(rows) THEN merged
    ELSE IF \E j \in 1..Len(merged) : generate_row_key(merged[j]) = generate_row_key(rows[i])
         THEN MergeRows(rows, i + 1, merged)
         ELSE MergeRows(rows, i + 1, Append(merged, rows[i]))

(* query_local_with_timeout / query_remote_with_timeout: what the task
   returns; a timeout or an exception gives [] *)
task_result(t) == IF t.st = "done" /\ t.inner = "ok" THEN t.rows ELSE <<>>

(* gather, then the loop "for result in results" over the tasks from i on *)
RECURSIVE MergeResults(_, _, _)
MergeResults(tasks, i, merged) ==
    IF i > Len(tasks) THEN merged
    ELSE MergeResults(tasks, i + 1, MergeRows(task_result(tasks[i]), 1, merged))

PendingTask == [st |-> "pending", inner |-> "none", rows |-> <<>>]

FanIdle == [pc |-> "idle", strategy |-> "none", seen |-> {}, result |-> <<>>, from |-> 0]

Strategies == {"union", "first_positive", "fastest"}

Pending(tasks) == {i \in 1..Len(tasks) : tasks[i].st = "pending"}
Done(tasks) == {i \in 1..Len(tasks) : tasks[i].st = "done"}

(* t.cancel() on every pending task *)
CancelPending(tasks) ==
    [i \in 1..Len(tasks) |->
        IF tasks[i].st = "pending" THEN [tasks[i] EXCEPT !.st = "cancelled"] ELSE tasks[i]]

(* fan_out_read(table, params, local_reader, strategy): the peers are
   selected from the registry reg and the tasks are created *)
FanStart(strategy, reg) ==
    /\ fanCall.pc = "idle"
    /\ \E sel \in select_random_node_per_cluster(reg) :
           fanTasks' = [i \in 1..(1 + Cardinality(sel)) |-> PendingTask]
    /\ fanCall' = [FanIdle EXCEPT !.pc = "waiting", !.strategy = strategy]
    /\ fanOrder' = <<>>
    /\ UNCHANGED <<fanReg, selLast>>

(* task i ends: the reader returned rows in time ("ok"), wait_for timed out
   while the reader had rows to give, or the reader raised *)
FanTaskEnds(i, inner, rows) ==
    /\ fanCall.pc = "waiting"
    /\ i \in Pending(fanTasks)
    /\ inner = "error" => rows = <<>>
    /\ fanTasks' = [fanTasks EXCEPT ![i] = [st |-> "done", inner |-> inner, rows |-> rows]]
    /\ fanOrder' = IF fanCall.strategy = "union" THEN fanOrder ELSE Append(fanOrder, i)
    /\ UNCHANGED <<fanReg, selLast, fanCall>>

(* strategy 'union': gather returns when every task is done *)
FanGatherReturns ==
    /\ fanCall.pc = "waiting"
    /\ fanCall.strategy = "union"
    /\ Pending(fanTasks) = {}
    /\ fanCall' = [fanCall EXCEPT !.pc = "returned",
                                  !.result = MergeResults(fanTasks, 1, <<>>)]
    /\ UNCHANGED <<fanReg, selLast, fanTasks, fanOrder>>

(* strategy 'first_positive': asyncio.wait(FIRST_COMPLETED) returns with the
   set done of the tasks that are done by now; "for task in done" visits a
   set, so any task of done with rows can be the one whose result is returned *)
FanFirstPositiveWakes ==
    LET done == Done(fanTasks) \ fanCall.seen
        positive == {i \in done : Len(task_result(fanTasks[i])) > 0}
    IN  /\ fanCall.pc = "waiting"
        /\ fanCall.strategy = "first_positive"
        /\ done # {}
        /\ IF positive # {}
           THEN /\ \E i \in positive :
                       fanCall' = [fanCall EXCEPT !.pc = "returned", !.from = i,
                                                  !.result = task_result(fanTasks[i])]
                /\ fanTasks' = CancelPending(fanTasks)
           ELSE /\ fanCall' = [fanCall EXCEPT
                                  !.seen = @ \cup done,
                                  !.pc = IF Pending(fanTasks) = {} THEN "returned" ELSE @]
                /\ UNCHANGED fanTasks
        /\ UNCHANGED <<fanReg, selLast, fanOrder>>

(* strategy 'fastest': asyncio.wait(FIRST_COMPLETED), the pending tasks are
   cancelled and the result of the first task of the set done is returned *)
FanFastestWakes ==
    /\ fanCall.pc = "waiting"
    /\ fanCall.strategy = "fastest"
    /\ Done(fanTasks) # {}
    /\ \E i \in Done(fanTasks) :
           fanCall' = [fanCall EXCEPT !.pc = "returned", !.from = i,
                                      !.result = task_result(fanTasks[i])]
    /\ fanTasks' = CancelPending(fanTasks)
    /\ UNCHANGED <<fanReg, selLast, fanOrder>>

(* the caller is done with the result; the next call can start *)
FanNextCall ==
    /\ fanCall.pc = "returned"
    /\ fanCall' = FanIdle
    /\ fanTasks' = <<>>
    /\ fanOrder' = <<>>
    /\ UNCHANGED <<fanReg, selLast>>

InitFan ==
    /\ fanReg = <<>>
    /\ selLast = NoSelection
    /\ fanCall = FanIdle
    /\ fanTasks = <<>>
    /\ fanOrder = <<>>

NextSel ==
    \/ \E p \in FanPeerIds, node \in FanNodes : FanRegister(p, node) /\ UNCHANGED notFanVars
    \/ \E p \in FanPeerIds : FanHealth(p) /\ UNCHANGED notFanVars
    \/ \E op \in {"fan_out_read", "fan_out_query"} : FanSelect(op) /\ UNCHANGED notFanVars

(* the steps of the tasks of a call *)
FanTaskSteps ==
    /\ fanCall.pc = "waiting"
    /\ \E i \in Pending(fanTasks), rows \in FanResults, inner \in {"ok", "timeout", "error"} :
           FanTaskEnds(i, inner, rows)

NextUnion ==
    \/ fanCall.pc = "idle" /\ (\E reg \in FanRegs : FanStart("union", reg))
                           /\ UNCHANGED notFanVars
    \/ FanTaskSteps /\ UNCHANGED notFanVars
    \/ FanGatherReturns /\ UNCHANGED notFanVars
    \/ FanNextCall /\ UNCHANGED notFanVars

NextFan ==
    \/ fanCall.pc = "idle" /\ (\E s \in Strategies \ {"union"}, reg \in FanRegs : FanStart(s, reg))
                           /\ UNCHANGED notFanVars
    \/ FanTaskSteps /\ UNCHANGED notFanVars
    \/ FanFirstPositiveWakes /\ UNCHANGED notFanVars
    \/ FanFastestWakes /\ UNCHANGED notFanVars
    \/ FanNextCall /\ UNCHANGED notFanVars

(* ================ ColumnarDB: operations by table name ================= *)
TableNames == 1..MaxTables

notEngVars == <<firstVars, colVars, dfVars, dcVars, ncVars, regVars, hrVars, fanVars, fsVars, cpVars, dfcVars, dtVars, recVars, lruVars>>

RowOps == {"insert", "update", "delete", "select", "find_one", "find_by_id",
           "count", "exists"}

(* the operations that begin with
   "if table_name not in self._tables: raise ValueError"; find_one goes
   through select and exists through count *)
RaisesOnUnknownTable(op) == op # "find_by_id"

(* how op ends on a table that is not in _tables *)
unknown_table_outcome(op) ==
    IF RaisesOnUnknownTable(op) THEN "ValueError" ELSE "None"

EngRecord(op, t, outcome) ==
    [op |-> op, table |-> t, known |-> t \in DOMAIN engTables, outcome |-> outcome,
     changed |-> engTables' # engTables]

(* create_table(name, columns) *)
EngCreateTable(t) ==
    /\ t \notin DOMAIN engTables
    /\ engTables' = [k \in DOMAIN engTables \cup {t} |-> IF k = t THEN 0 ELSE engTables[k]]
    /\ engLast' = EngRecord("create_table", t, "returned")

(* drop_table(name) *)
EngDropTable(t) ==
    /\ t \in DOMAIN engTables
    /\ engTables' = [k \in DOMAIN engTables \ {t} |-> engTables[k]]
    /\ engLast' = EngRecord("drop_table", t, "returned")

(* insert / update / delete / select / find_one / find_by_id / count /
   exists (table_name, ...): on an existing table insert appends a row,
   delete (without a condition) removes the rows, the others leave the
   rows' number alone *)
EngRowOp(op, t) ==
    /\ IF t \notin DOMAIN engTables
       THEN /\ UNCHANGED engTables
            /\ engLast' = EngRecord(op, t, unknown_table_outcome(op))
       ELSE /\ op = "insert" => engTables[t] < MaxEngRows
            /\ engTables' = [engTables EXCEPT ![t] =
                                CASE op = "insert" -> @ + 1
                                  [] op = "delete" -> 0
                                  [] OTHER -> @]
            /\ engLast' = EngRecord(op, t, "returned")

InitEng ==
    /\ engTables = <<>>
    /\ engLast = [op |-> "none", table |-> 0, known |-> FALSE, outcome |-> "none",
                  changed |-> FALSE]

NextEng ==
    \/ \E t \in TableNames : EngCreateTable(t) /\ UNCHANGED notEngVars
    \/ \E t \in TableNames : EngDropTable(t) /\ UNCHANGED notEngVars
    \/ \E op \in RowOps, t \in TableNames : EngRowOp(op, t) /\ UNCHANGED notEngVars

(* ============ MemTable states under FlushService and flush_all ========= *)
FsTables == 1..MaxFsTables

notFsVars == <<firstVars, colVars, dfVars, dcVars, ncVars, regVars, hrVars, fanVars, engVars, cpVars,
               dfcVars, dtVars, recVars, lruVars>>

SeqRange(s) == {s[i] : i \in 1..Len(s)}

(* MemTable.should_flush, on the entry count *)
MemTable_should_flush(m) == fsCount[m] >= FsEntryLimit

(* the MemTable object a rotation creates *)
FsFresh == CHOOSE m \in FsTables : fsState[m] = "NONE" /\ \A k \in FsTables : k < m => fsState[k] # "NONE"

(* MemTableManager.get_memtable: the memtable it returns *)
MemTableManager_get_memtable == IF MemTable_should_flush(fsActive) THEN FsFresh ELSE fsActive

(* MemTableManager.get_memtable, the manager after the call.  A full active
   memtable is replaced and appended to the immutable list before
   schedule_flush runs; schedule_flush starts with make_immutable, which
   raises on a memtable that is not ACTIVE, and then the memtable is neither
   changed nor queued and the exception reaches the caller of get_memtable.
   cnt is the number of entries the caller then inserts into the memtable
   it was given. *)
GetMemtableStep(cnt) ==
    IF MemTable_should_flush(fsActive)
    THEN /\ \E m \in FsTables : fsState[m] = "NONE"
         /\ fsActive' = FsFresh
         /\ fsImm' = Append(fsImm, fsActive)
         /\ IF fsState[fsActive] = "ACTIVE"
            THEN /\ fsState' = [fsState EXCEPT ![fsActive] = "IMMUTABLE", ![FsFresh] = "ACTIVE"]
                 /\ fsQueue' = Append(fsQueue, fsActive)
                 /\ fsScheduled' = fsScheduled \cup {fsActive}
                 /\ fsCount' = [fsCount EXCEPT ![FsFresh] = cnt]
            ELSE /\ fsState' = [fsState EXCEPT ![FsFresh] = "ACTIVE"]
                 /\ UNCHANGED <<fsQueue, fsScheduled, fsCount>>
    ELSE /\ cnt > 0
         /\ fsState[fsActive] = "ACTIVE"
         /\ fsCount' = [fsCount EXCEPT ![fsActive] = @ + cnt]
         /\ UNCHANGED <<fsState, fsActive, fsImm, fsQueue, fsScheduled>>

(* DistributedColumnarDB._local_insert in memtable mode: get_memtable, then
   memtable.insert of a new row id; insert raises unless the memtable it is
   given is ACTIVE *)
FsInsert ==
    /\ GetMemtableStep(1)
    /\ UNCHANGED <<fsLoop, fsFlushAll, fsFiles, fsRegistry>>

(* DistributedColumnarDB.commit in memtable mode: get_memtable for the table
   of each operation; the memtable it returns is below its limit, so the
   schedule_flush of line 822 is never reached *)
FsCommit ==
    /\ MemTable_should_flush(fsActive)
    /\ GetMemtableStep(0)
    /\ UNCHANGED <<fsLoop, fsFlushAll, fsFiles, fsRegistry>>

(* DistributedColumnarDB.flush_all: get_memtable, and with entry_count > 0
   FlushService.flush_immediately, up to its await of the writer.  Of a
   flush_all that changes nothing (empty memtable, or make_immutable raising)
   no step is taken. *)
FsFlushAllStart ==
    /\ fsFlushAll = 0
    /\ ~MemTable_should_flush(fsActive)
    /\ fsCount[fsActive] > 0
    /\ fsState[fsActive] = "ACTIVE"
    /\ fsState' = [fsState EXCEPT ![fsActive] = "IMMUTABLE"]
    /\ fsFlushAll' = fsActive
    /\ UNCHANGED <<fsCount, fsActive, fsImm, fsQueue, fsLoop, fsFiles, fsRegistry, fsScheduled>>

(* flush_all on a full active memtable: get_memtable rotates, the new
   memtable is empty and flush_immediately is skipped *)
FsFlushAllRotates ==
    /\ fsFlushAll = 0
    /\ MemTable_should_flush(fsActive)
    /\ GetMemtableStep(0)
    /\ UNCHANGED <<fsLoop, fsFlushAll, fsFiles, fsRegistry>>

(* flush_immediately after the writer: FLUSHED without a callback; when the
   writer raises, the exception leaves flush_all and the state stays *)
FsFlushAllWrite(ok) ==
    /\ fsFlushAll # 0
    /\ IF ok
       THEN /\ fsState' = [fsState EXCEPT ![fsFlushAll] = "FLUSHED"]
            /\ fsFiles' = fsFiles \cup {fsFlushAll}
       ELSE UNCHANGED <<fsState, fsFiles>>
    /\ fsFlushAll' = 0
    /\ UNCHANGED <<fsCount, fsActive, fsImm, fsQueue, fsLoop, fsRegistry, fsScheduled>>

(* _flush_loop takes a memtable from the queue; _flush_memtable sets FLUSHING
   and awaits the writer *)
FsLoopTake ==
    /\ fsLoop = 0
    /\ fsQueue # <<>>
    /\ fsLoop' = Head(fsQueue)
    /\ fsQueue' = Tail(fsQueue)
    /\ fsState' = [fsState EXCEPT ![Head(fsQueue)] = "FLUSHING"]
    /\ UNCHANGED <<fsCount, fsActive, fsImm, fsFlushAll, fsFiles, fsRegistry, fsScheduled>>

(* MemTableManager._on_flush_complete on the immutable list, given the states
   after the flush: the registration is done by the caller; the FLUSHED
   memtables are dropped only when load_metadata returned *)
FsReleased(st) ==
    IF SSTableReader_load_metadata_ok
    THEN SelectSeq(fsImm, LAMBDA m : st[m] # "FLUSHED")
    ELSE fsImm

(* _flush_memtable after the writer: FLUSHED and the callbacks, or back to
   IMMUTABLE when the writer raised; the memtable is not queued again *)
FsLoopWrite(ok) ==
    /\ fsLoop # 0
    /\ IF ok
       THEN /\ fsState' = [fsState EXCEPT ![fsLoop] = "FLUSHED"]
            /\ fsFiles' = fsFiles \cup {fsLoop}
            /\ fsRegistry' = fsRegistry \cup {fsLoop}
            /\ fsImm' = FsReleased([fsState EXCEPT ![fsLoop] = "FLUSHED"])
       ELSE /\ fsState' = [fsState EXCEPT ![fsLoop] = "IMMUTABLE"]
            /\ UNCHANGED <<fsFiles, fsRegistry, fsImm>>
    /\ fsLoop' = 0
    /\ UNCHANGED <<fsCount, fsActive, fsQueue, fsFlushAll, fsScheduled>>

InitFs ==
    /\ fsState = [m \in FsTables |-> IF m = 1 THEN "ACTIVE" ELSE "NONE"]
    /\ fsCount = [m \in FsTables |-> 0]
    /\ fsActive = 1
    /\ fsImm = <<>>
    /\ fsQueue = <<>>
    /\ fsLoop = 0
    /\ fsFlushAll = 0
    /\ fsFiles = {}
    /\ fsRegistry = {}
    /\ fsScheduled = {}

NextFs ==
    \/ FsInsert /\ UNCHANGED notFsVars
    \/ FsCommit /\ UNCHANGED notFsVars
    \/ FsFlushAllStart /\ UNCHANGED notFsVars
    \/ FsFlushAllRotates /\ UNCHANGED notFsVars
    \/ \E ok \in BOOLEAN : FsFlushAllWrite(ok) /\ UNCHANGED notFsVars
    \/ FsLoopTake /\ UNCHANGED notFsVars
    \/ \E ok \in BOOLEAN : FsLoopWrite(ok) /\ UNCHANGED notFsVars

(* ========================= CompactionService =========================== *)
notCpVars == <<firstVars, colVars, dfVars, dcVars, ncVars, regVars, hrVars, fanVars, engVars,
               fsVars, dfcVars, dtVars, recVars, lruVars>>

CpSegIds == 1..(2 * MaxCpSegs)

NoCompaction ==
    [op |-> "none", level |-> 0, inputs |-> {}, mem |-> <<>>, files |-> <<>>,
     registry |-> <<>>, readers |-> <<>>]

(* SSTableReader.get / scan start with load_metadata, and they read the file:
   a reader of segment s raises when load_metadata raises or the file is
   gone, else it yields the rows of the file *)
SSTableReader_raises(files, s) == ~(s \in DOMAIN files /\ SSTableReader_load_metadata_ok)

SSTableReader_scan(files, s) == files[s].rows

Raises == -1

(* MemTableManager.get(table, r): memtables first, then the readers from the
   newest to the oldest; a reader that raises ends the call *)
CpGet(mem, files, readers, r) ==
    IF r \in DOMAIN mem THEN mem[r]
    ELSE LET hit == {i \in 1..Len(readers) :
                        \/ SSTableReader_raises(files, readers[i])
                        \/ r \in DOMAIN SSTableReader_scan(files, readers[i])}
         IN  IF hit = {} THEN NoRow
             ELSE IF SSTableReader_raises(files, readers[Max(hit)]) THEN Raises
             ELSE SSTableReader_scan(files, readers[Max(hit)])[r]

(* MemTableManager.scan(table), as the value reported for row id r: the
   readers oldest first (first reader wins), overwritten by the memtables *)
CpScan(mem, files, readers, r) ==
    IF \E i \in 1..Len(readers) : SSTableReader_raises(files, readers[i])
    THEN Raises
    ELSE IF r \in DOMAIN mem THEN mem[r]
    ELSE LET hit == {i \in 1..Len(readers) : r \in DOMAIN SSTableReader_scan(files, readers[i])}
         IN  IF hit = {} THEN NoRow ELSE SSTableReader_scan(files, readers[Min(hit)])[r]

(* A memtable holding row r with value v is rotated and flushed by the flush
   loop: SSTableWriter.write at level 0, then _on_flush_complete registers
   the segment and, when load_metadata returns, adds a reader and releases
   the flushed memtable. *)
CpFlush(r, v) ==
    /\ cpNextSeg < MaxCpSegs
    /\ cpNextSeg' = cpNextSeg + 1
    /\ cpDisk' = [s \in DOMAIN cpDisk \cup {cpNextSeg + 1} |->
                     IF s = cpNextSeg + 1 THEN [level |-> 0, rows |-> [k \in {r} |-> v]]
                     ELSE cpDisk[s]]
    /\ cpRegistry' = Append(cpRegistry, [id |-> cpNextSeg + 1, level |-> 0])
    /\ IF SSTableReader_load_metadata_ok
       THEN /\ cpReaders' = Append(cpReaders, cpNextSeg + 1)
            /\ cpMem' = [k \in DOMAIN cpMem \ {r} |-> cpMem[k]]
       ELSE /\ cpReaders' = cpReaders
            /\ cpMem' = [k \in DOMAIN cpMem \cup {r} |-> IF k = r THEN v ELSE cpMem[k]]
    /\ cpLast' = NoCompaction

(* _maybe_compact_table: the levels of the registry in the order of their
   first entry, and the first of them that has reached the threshold *)
RegLevel(reg, l) == SelectSeq(reg, LAMBDA m : m.level = l)

FirstAt(reg, l) == Min({i \in 1..Len(reg) : reg[i].level = l})

CompactableLevels(reg) ==
    {l \in {reg[i].level : i \in 1..Len(reg)} :
        Len(RegLevel(reg, l)) >= LevelThreshold /\ l < MAX_LEVELS}

LevelToCompact(reg) ==
    CHOOSE l \in CompactableLevels(reg) :
        \A k \in CompactableLevels(reg) : FirstAt(reg, l) <= FirstAt(reg, k)

(* _compact_level: merged_entries from the inputs in created_at order, an
   input whose file is missing or whose reader raises contributing nothing *)
RECURSIVE MergeInputs(_, _, _)
MergeInputs(files, inputs, merged) ==
    IF inputs = <<>> THEN merged
    ELSE IF SSTableReader_raises(files, Head(inputs).id)
    THEN MergeInputs(files, Tail(inputs), merged)
    ELSE MergeInputs(files, Tail(inputs),
                     [k \in DOMAIN merged \cup DOMAIN SSTableReader_scan(files, Head(inputs).id) |->
                         IF k \in DOMAIN SSTableReader_scan(files, Head(inputs).id)
                         THEN SSTableReader_scan(files, Head(inputs).id)[k]
                         ELSE merged[k]])

(* _compact_level after the merge: nothing when merged_entries is empty,
   else the output is written at level + 1 and registered, then the inputs
   are unregistered and their files removed.  The reader list of the manager
   is not touched by the compaction service. *)
compact_level_DropsInputsAlways(level, inputs, merged) ==
    /\ cpDisk' = [s \in DOMAIN cpDisk \ {inputs[i].id : i \in 1..Len(inputs)} |-> cpDisk[s]]
    /\ cpRegistry' = SelectSeq(cpRegistry, LAMBDA m : m.level # level)
    /\ UNCHANGED cpNextSeg

CompactionService_compact_level(level, inputs, merged) ==
    IF DOMAIN merged = {}
    THEN UNCHANGED <<cpDisk, cpRegistry, cpNextSeg>>
    ELSE /\ cpNextSeg' = cpNextSeg + 1
         /\ cpDisk' = [s \in (DOMAIN cpDisk \ {inputs[i].id : i \in 1..Len(inputs)})
                                 \cup {cpNextSeg + 1} |->
                          IF s = cpNextSeg + 1 THEN [level |-> level + 1, rows |-> merged]
                          ELSE cpDisk[s]]
         /\ cpRegistry' = Append(SelectSeq(cpRegistry, LAMBDA m : m.level # level),
                                 [id |-> cpNextSeg + 1, level |-> level + 1])

(* one round of _compaction_loop for the table *)
CpCompact ==
    /\ CompactableLevels(cpRegistry) # {}
    /\ cpNextSeg < 2 * MaxCpSegs
    /\ LET level == LevelToCompact(cpRegistry)
           inputs == RegLevel(cpRegistry, level)
       IN  /\ CompactionService_compact_level(level, inputs, MergeInputs(cpDisk, inputs, <<>>))
           /\ cpLast' = [op |-> "compact", level |-> level,
                         inputs |-> {inputs[i].id : i \in 1..Len(inputs)},
                         mem |-> cpMem, files |-> cpDisk,
                         registry |-> cpRegistry, readers |-> cpReaders]
    /\ UNCHANGED <<cpMem, cpReaders>>

InitCp ==
    /\ cpMem = <<>>
    /\ cpDisk = <<>>
    /\ cpRegistry = <<>>
    /\ cpReaders = <<>>
    /\ cpNextSeg = 0
    /\ cpLast = NoCompaction

NextCp ==
    \/ \E r \in RowIds, v \in Vals : CpFlush(r, v) /\ UNCHANGED notCpVars
    \/ CpCompact /\ UNCHANGED notCpVars

(* ============ DirectFlushManager.compact, step by step ================= *)
notDfDfcVars == <<memVars, txnVars, walVars, colVars, dcVars, ncVars, regVars, hrVars, fanVars,
                  engVars, fsVars, cpVars, dtVars, recVars, lruVars>>

(* the last write of each row id among the segments appended after the
   first n of the list, deletes left out *)
WrittenSince(n) ==
    LET at(r) == {i \in (n + 1)..Len(segs) : DirectFlushReader_get(segs[i], r) # NoRow}
        rows == {r \in DfRowIds : at(r) # {}
                                   /\ DirectFlushReader_get(segs[Max(at(r))], r) # DeletedRow}
    IN  [r \in rows |-> DirectFlushReader_get(segs[Max(at(r))], r)]

(* compact(table) up to 'await writer.write_batch(active_rows)': get_all,
   the filter of the deleted rows, old_segments = self._segments[table].
   With no live row the call returns here. *)
DfcCompactStart ==
    /\ dfcPc = "idle"
    /\ segs # <<>>
    /\ \E r \in DfRowIds : DirectFlushManager_scan(r) \notin {NoRow, DeletedRow}
    /\ dfcPc' = "writing"
    /\ dfcRows' = DirectFlushManager_compact
    /\ dfcStart' = Len(segs)
    /\ UNCHANGED <<dfcLast, dfVars, clusterVars>>

(* compact(table) after write_batch: the segment list becomes [segment] and
   the file of every entry of old_segments is removed; old_segments is the
   list object that insert appends to, so it holds the segments written
   since. *)
DfcCompactFinish ==
    /\ dfcPc = "writing"
    /\ segs' = dfcRows
    /\ dfCompacted' = TRUE
    /\ dfcPc' = "idle"
    /\ dfcLast' = [op |-> "compact", during |-> WrittenSince(dfcStart)]
    /\ UNCHANGED <<dfcRows, dfcStart, dfTomb, dfLatest, rowCounter, ring, ringNodes,
                   guildCache, issuedDirect, lastWrite>>

InitDfc ==
    /\ dfcPc = "idle"
    /\ dfcRows = <<>>
    /\ dfcStart = 0
    /\ dfcLast = [op |-> "none", during |-> <<>>]

NextDfc ==
    \/ \E r \in DfRowIds, pv \in PVals : DfInsert(r, pv) /\ UNCHANGED notDfVars
    \/ \E r \in DfRowIds : DfDelete(r) /\ UNCHANGED notDfVars
    \/ DfcCompactStart /\ UNCHANGED notDfDfcVars
    \/ DfcCompactFinish /\ UNCHANGED notDfDfcVars

(* ================== drop_table followed by create_table ================ *)
notDtVars == <<firstVars, colVars, dfVars, dcVars, ncVars, regVars, hrVars, fanVars, engVars,
               fsVars, cpVars, dfcVars, recVars, lruVars>>

(* legacy: ColumnarDB (Table.data); direct: DirectFlushManager._segments;
   memtable: MemTableManager._active_memtables *)
Engines == {"legacy", "direct", "memtable"}

NoSelect == [set |-> FALSE, result |-> <<>>]

(* QueryCache.invalidate_table(name) on the entry of select(table) *)
DtInvalidate(entry) == IF NameInKey("sha256") THEN NoSelect ELSE entry

(* create_table(name, columns): a new Table object; register_table of the
   storage manager keeps the segment list ("if table_name not in
   self._segments") or the active memtable ("if table_name not in
   self._active_memtables") it already has under the name *)
create_table_rows(e) == IF e = "legacy" THEN <<>> ELSE dtRows[e]

DtCreateTable ==
    /\ ~dtExists
    /\ dtExists' = TRUE
    /\ dtRows' = [e \in Engines |-> create_table_rows(e)]
    /\ dtFresh' = TRUE
    /\ UNCHANGED dtCache

(* drop_table(name): storage.delete_table, drop_table_indexes,
   query_cache.invalidate_table, del _schemas[name], del _tables[name]; the
   direct-flush and the memtable manager are not called *)
DtDropTable ==
    /\ dtExists
    /\ dtExists' = FALSE
    /\ dtRows' = [e \in Engines |-> IF e = "legacy" THEN <<>> ELSE dtRows[e]]
    /\ dtCache' = [e \in Engines |-> DtInvalidate(dtCache[e])]
    /\ dtFresh' = FALSE

(* insert(name, {v: v}) on each engine, ending with invalidate_table *)
DtInsert(v) ==
    /\ dtExists
    /\ \A e \in Engines : Len(dtRows[e]) < MaxDtRows
    /\ dtRows' = [e \in Engines |-> Append(dtRows[e], v)]
    /\ dtCache' = [e \in Engines |-> DtInvalidate(dtCache[e])]
    /\ dtFresh' = FALSE
    /\ UNCHANGED dtExists

(* select(name) without condition: the cached result, else the rows of the
   store, which are then cached *)
DtSelectResult(e) == IF dtCache[e].set THEN dtCache[e].result ELSE dtRows[e]

(* count(name) without condition: not cached *)
DtCount(e) == Len(dtRows[e])

DtSelect ==
    /\ dtExists
    /\ dtCache' = [e \in Engines |-> [set |-> TRUE, result |-> DtSelectResult(e)]]
    /\ UNCHANGED <<dtExists, dtRows, dtFresh>>

InitDt ==
    /\ dtExists = FALSE
    /\ dtRows = [e \in Engines |-> <<>>]
    /\ dtCache = [e \in Engines |-> NoSelect]
    /\ dtFresh = FALSE

NextDt ==
    \/ DtCreateTable /\ UNCHANGED notDtVars
    \/ DtDropTable /\ UNCHANGED notDtVars
    \/ \E v \in Vals : DtInsert(v) /\ UNCHANGED notDtVars
    \/ DtSelect /\ UNCHANGED notDtVars

(* ===================== TransactionManager.recover ====================== *)
notRecVars == <<firstVars, colVars, dfVars, dcVars, ncVars, regVars, hrVars, fanVars, engVars,
                fsVars, cpVars, dfcVars, dtVars, lruVars>>

NotRecovered ==
    [ran |-> FALSE, log |-> <<>>, state |-> [t \in Txns |-> "NONE"],
     ops |-> [t \in Txns |-> <<>>]]

(* the operation records of t in the log *)
RecOpsOf(log, t) == SelectSeq(log, LAMBDA rec : IsOpOf(t, rec))

(* begin(): nothing is written *)
RecBegin(t) ==
    /\ recLive[t] = "NONE"
    /\ recLive' = [recLive EXCEPT ![t] = "ACTIVE"]
    /\ UNCHANGED <<recLog, recovered>>

(* add_operation(txn, op) on an ACTIVE transaction: wal.write_operation *)
RecAddOperation(t, kind) ==
    /\ recLive[t] = "ACTIVE"
    /\ Len(RecOpsOf(recLog, t)) < MaxRecOps
    /\ Len(recLog) < MaxRecLog
    /\ recLog' = Append(recLog, OpRecord(t, [kind |-> kind, row_id |-> 0,
                                             seq |-> Len(RecOpsOf(recLog, t)) + 1]))
    /\ UNCHANGED <<recLive, recovered>>

(* commit(txn) / abort(txn) on an ACTIVE transaction: write_commit or
   write_abort, then mark_committed or mark_aborted *)
RecFinish(t, commit) ==
    /\ recLive[t] = "ACTIVE"
    /\ Len(recLog) < MaxRecLog
    /\ recLog' = Append(recLog, IF commit THEN CommitRecord(t) ELSE AbortRecord(t))
    /\ recLive' = [recLive EXCEPT ![t] = IF commit THEN "COMMITTED" ELSE "ABORTED"]
    /\ UNCHANGED recovered

(* recover() of a new manager on the same wal_dir, once at its start: the
   objects of the old process are gone, _transactions takes the rebuilt
   ones *)
RecRecover ==
    /\ ~recovered.ran
    /\ recLog # <<>>
    /\ recovered' = [ran |-> TRUE, log |-> recLog,
                     state |-> [t \in Txns |-> TransactionManager_recover_state(recLog, t)],
                     ops |-> [t \in Txns |-> TransactionManager_recover_ops(recLog, t)]]
    /\ recLive' = [t \in Txns |->
                     IF TransactionManager_recover_state(recLog, t) # "NONE"
                     THEN TransactionManager_recover_state(recLog, t)
                     ELSE IF recLive[t] = "NONE" THEN "NONE" ELSE "LOST"]
    /\ UNCHANGED recLog

InitRec ==
    /\ recLog = <<>>
    /\ recLive = [t \in Txns |-> "NONE"]
    /\ recovered = NotRecovered

NextRec ==
    \/ \E t \in Txns : RecBegin(t) /\ UNCHANGED notRecVars
    \/ \E t \in Txns, kind \in OpKinds : RecAddOperation(t, kind) /\ UNCHANGED notRecVars
    \/ \E t \in Txns, commit \in BOOLEAN : RecFinish(t, commit) /\ UNCHANGED notRecVars
    \/ RecRecover /\ UNCHANGED notRecVars

(* ============================== LRUCache =============================== *)
notLruVars == <<firstVars, colVars, dfVars, dcVars, ncVars, regVars, hrVars, fanVars, engVars,
                fsVars, cpVars, dfcVars, dtVars, recVars>>

LruKeySet == 1..LruKeys

NoLruCall == [op |-> "none", key |-> 0, before |-> <<>>, evicted |-> {}]

LruOrder(entries) == [i \in 1..Len(entries) |-> entries[i].key]

RECURSIVE SumSizes(_)
SumSizes(entries) ==
    IF entries = <<>> THEN 0 ELSE Head(entries).size + SumSizes(Tail(entries))

(* "if key in self._cache: ... del self._cache[key]" *)
WithoutKey(entries, k) == SelectSeq(entries, LAMBDA e : e.key # k)

(* "while len(self._cache) >= self.max_size": drop the oldest entry *)
RECURSIVE EvictForSize(_)
EvictForSize(entries) ==
    IF Len(entries) >= LruMaxSize /\ entries # <<>>
    THEN EvictForSize(Tail(entries))
    ELSE entries

(* "while self._current_memory + size > self.max_memory_bytes and
   self._cache": drop the oldest entry *)
RECURSIVE EvictForMemory(_, _, _)
EvictForMemory(entries, mem, size) ==
    IF mem + size > LruMaxBytes /\ entries # <<>>
    THEN EvictForMemory(Tail(entries), mem - Head(entries).size, size)
    ELSE entries

(* set(key, value) with _estimate_size(value) = size *)
LRUCache_set(k, size) ==
    LET e0 == WithoutKey(cacheEntries, k)
        m0 == currentMemory - (SumSizes(cacheEntries) - SumSizes(e0))
        e1 == EvictForSize(e0)
        m1 == m0 - (SumSizes(e0) - SumSizes(e1))
        e2 == EvictForMemory(e1, m1, size)
        m2 == m1 - (SumSizes(e1) - SumSizes(e2))
    IN  /\ cacheEntries' = Append(e2, [key |-> k, size |-> size])
        /\ currentMemory' = m2 + size
        /\ lruLast' = [op |-> "set", key |-> k, before |-> LruOrder(e0),
                       evicted |-> {e0[i].key : i \in 1..(Len(e0) - Len(e2))}]

(* get(key): a hit moves the entry to the end *)
LRUCache_get(k) ==
    /\ cacheEntries' =
          IF \E i \in 1..Len(cacheEntries) : cacheEntries[i].key = k
          THEN WithoutKey(cacheEntries, k)
                   \o SelectSeq(cacheEntries, LAMBDA e : e.key = k)
          ELSE cacheEntries
    /\ lruLast' = [op |-> "get", key |-> k, before |-> LruOrder(cacheEntries),
                   evicted |-> {}]
    /\ UNCHANGED currentMemory

(* delete(key) *)
LRUCache_delete(k) ==
    /\ \E i \in 1..Len(cacheEntries) : cacheEntries[i].key = k
    /\ cacheEntries' = WithoutKey(cacheEntries, k)
    /\ currentMemory' = currentMemory - (SumSizes(cacheEntries) - SumSizes(cacheEntries'))
    /\ lruLast' = [op |-> "delete", key |-> k, before |-> LruOrder(cacheEntries),
                   evicted |-> {}]

InitLru ==
    /\ cacheEntries = <<>>
    /\ currentMemory = 0
    /\ lruLast = NoLruCall

NextLru ==
    \/ \E k \in LruKeySet, size \in 1..LruMaxValue : LRUCache_set(k, size) /\ UNCHANGED notLruVars
    \/ \E k \in LruKeySet : LRUCache_get(k) /\ UNCHANGED notLruVars
    \/ \E k \in LruKeySet : LRUCache_delete(k) /\ UNCHANGED notLruVars

(* ========================== specifications ============================ *)
vars == <<firstVars, laterVars>>

Init == InitMem /\ InitTxn /\ InitWal /\ InitCluster /\ InitCol /\ InitDf /\ InitDc /\ InitNc
        /\ InitReg /\ InitHr /\ InitFan /\ InitEng /\ InitFs /\ InitCp /\ InitDfc /\ InitDt /\ InitRec /\ InitLru

(* the memtable path: MemTableManager with its FlushService *)
SpecMem == Init /\ [][NextMem]_vars

(* the legacy engine with its TransactionManager, sequential callers *)
SpecTxn == Init /\ [][NextTxn]_vars

(* the TransactionManager under concurrent tasks *)
SpecWal == Init /\ [][NextWal]_vars

(* the distributed engine in direct-flush mode on one node of a cluster *)
SpecCluster == Init /\ [][NextCluster]_vars

(* row id issuance of the distributed engine in both storage modes *)
SpecIds == Init /\ [][NextIds]_vars

(* the legacy engine's table with an indexed column and the query cache *)
SpecCol == Init /\ [][NextCol]_vars

(* the direct-flush store driven through DirectFlushManager's own API *)
SpecDf == Init /\ [][NextDf]_vars

(* one engine per storage mode, receiving the same calls *)
SpecModes == Init /\ [][NextModes]_vars

(* a non-owner node's distributed cache, its owner and an LRU cache *)
SpecDc == Init /\ [][NextDc]_vars

(* tasks calling NodeClient.request *)
SpecNc == Init /\ [][NextNc]_vars
SpecReg == Init /\ [][NextReg]_vars
SpecHr == Init /\ [][NextHr]_vars
SpecSel == Init /\ [][NextSel]_vars
SpecUnion == Init /\ [][NextUnion]_vars
SpecFan == Init /\ [][NextFan]_vars
SpecEng == Init /\ [][NextEng]_vars

(* the MemTable states under rotation, the flush loop and flush_all *)
SpecFs == Init /\ [][NextFs]_vars

(* CompactionService rounds between flushes *)
SpecCp == Init /\ [][NextCp]_vars

(* the direct-flush store with compact() running beside the writes *)
SpecDfc == Init /\ [][NextDfc]_vars

(* one table name dropped and created again on the three engines *)
SpecDt == Init /\ [][NextDt]_vars

(* recover() over the WAL of interleaved transactions *)
SpecRec == Init /\ [][NextRec]_vars

(* one LRUCache bounded by count and bytes *)
SpecLru == Init /\ [][NextLru]_vars

(* ======================= claims on the memtable path =================== *)
(* C1: for every row id that was only inserted/updated (never deleted), with
   every flush so far completed, MemTableManager.get returns the most recently
   written version of the row. *)
C1_GetReturnsLatest ==
    \A r \in RowIds :
        (~everDeleted[r] /\ ~flushFailed) => MemTableManager_get(r) = latest[r]

(* C2: every row that MemTableManager.scan returns is the most recently
   written version of its row id: a row whose last write was a delete is not
   returned, and a returned row carries the value of the last insert/update. *)
C2_ScanReturnsLatest ==
    \A r \in RowIds :
        MemTableManager_scan(r) # NoRow =>
            (~tomb[r] /\ MemTableManager_scan(r) = latest[r])

(* C3: after MemTable.delete(r), and until r is written again, neither get
   nor scan returns r, whether the tombstone is still in a memtable or the
   memtable has been flushed. *)
C3_DeletedStaysHidden ==
    \A r \in RowIds :
        tomb[r] => (MemTableManager_get(r) = NoRow /\ MemTableManager_scan(r) = NoRow)

(* ================= claims on transactions and recovery ================ *)
HasCommit(t) == HasRecord(wal, t, "COMMIT")

(* C4: when rollback(txn) has returned after aborting txn, no row that
   select returns was written by an operation issued under txn. *)
C4_RollbackHidesTxn ==
    (lastCall.op = "rollback" /\ lastCall.tm = "True") =>
        \A i \in 1..Len(ColumnarDB_select) : ColumnarDB_select[i] # lastCall.txn

(* C5: after a crash and a restart with recovery, every row of the table was
   written by a non-transactional call or by a transaction whose COMMIT
   record is in the WAL, and every row inserted by a transaction whose COMMIT
   record is in the WAL is in the table. *)
C5_RecoveryMatchesWal ==
    lastCall.op = "restart" =>
        /\ \A i \in 1..Len(tbl) : tbl[i] = NoTxn \/ HasCommit(tbl[i])
        /\ \A k \in 1..Len(wal) :
              (wal[k].kind = "INSERT" /\ HasCommit(wal[k].txn)) =>
                  wal[k].row_id < ColumnarDB_count

(* C6: when the write of the COMMIT record fails, the engine's commit raises
   to its caller and leaves the transaction Aborted. *)
C6_FailedCommitAborts ==
    (lastCall.op = "commit" /\ lastCall.walFailed) =>
        /\ lastCall.engine # "None"
        /\ txnState[lastCall.txn] = "ABORTED"

(* C8: add_operation, commit and abort on a transaction that is already
   Committed or Aborted fail with an error, append nothing to the WAL, fire
   no callback and leave the transaction's state and operations unchanged. *)
C8_FinishedTxnRejectsCalls ==
    (lastCall.op \in {"insert", "update", "commit", "rollback"} /\ lastCall.onFinished) =>
        /\ lastCall.tm \in {"RuntimeError", "ValueError", "OSError"}
        /\ ~lastCall.changed

(* C7: for each transaction the WAL holds the operation records in the order
   of the add_operation calls, and no operation record of a transaction
   follows its COMMIT or ABORT record (so COMMIT comes after all of them). *)
C7_WalOrder ==
    \A i, j \in 1..Len(wal) :
        (i < j /\ wal[i].txn = wal[j].txn) =>
            /\ (wal[i].kind \in OpKinds /\ wal[j].kind \in OpKinds)
                    => wal[i].seq < wal[j].seq
            /\ wal[i].kind \in {"COMMIT", "ABORT"} => wal[j].kind \notin OpKinds

(* A contended run: a call had to wait for the lock, and the log holds two
   operation records and the COMMIT record of one transaction while another
   add_operation call for it is in flight. *)
C7_Witness ==
    /\ contended
    /\ \E t \in Txns :
          /\ HasCommit(t)
          /\ Cardinality({i \in 1..Len(wal) : IsOpOf(t, wal[i])}) >= 2
          /\ \E k \in Tasks : pc[k] # "idle" /\ req[k].op = "add_operation"
                                /\ req[k].txn = t

(* ================= claims on the distributed engine =================== *)
(* C9: an insert, update or delete for a partition value whose ring owner is
   not the local node is forwarded to the owner or fails, and leaves the
   local storage unchanged. *)
C9_NonOwnerWriteRejected ==
    (lastWrite.kind \in {"insert", "update", "delete"} /\ ~lastWrite.owner) =>
        /\ lastWrite.outcome \in {"forwarded", "failed"}
        /\ ~lastWrite.changed

StrictlyIncreasing(seq) == \A i, j \in 1..Len(seq) : i < j => seq[i] < seq[j]

(* C10: the row ids the engine issues for one table are strictly increasing,
   hence never repeated, in the memtable path and in the direct-flush path. *)
C10_RowIdsIncrease ==
    /\ StrictlyIncreasing(issued)
    /\ StrictlyIncreasing(issuedDirect)

(* ================= claims on the legacy engine's indexes ============== *)
(* C11: after any sequence of insert, update and delete, the index of the
   indexed column c holds exactly the pairs (value, row_id) with
   0 <= row_id < row_count and value = data[c][row_id]: search_index(c, v)
   is the set of the row ids whose current value of c is v. *)
C11_IndexMatchesData ==
    \A v \in ColVals :
        {search_index(colIndex, v)[j] : j \in 1..Len(search_index(colIndex, v))}
            = {i - 1 : i \in Matching(colData, v)}

(* C12: a select that returns after a write to the table has returned never
   hands out a query-cache entry that was stored before that write. *)
C12_NoStaleCachedSelect ==
    (colCall.op = "select" /\ colCall.cached) => ~colCall.old

(* ================== claims on the direct-flush store ================== *)
(* C14: after delete(table, R), and until R is inserted again, get(table, R)
   returns nothing and scan/get_all/find_by_column return no row for R; once
   compact(table) has returned, the table is one segment that has no entry
   for R and holds the newest version of every other live row. *)
C14_DeletedRowHidden ==
    /\ \A r \in dfTomb :
          /\ DirectFlushManager_get(r) = NoRow
          /\ DirectFlushManager_scan(r) = NoRow
          /\ \A v \in PVals : ~DirectFlushManager_find_by_column(r, v)
    /\ dfCompacted =>
          /\ Len(segs) = 1
          /\ \A r \in DfRowIds :
                DirectFlushReader_get(segs[1], r) = IF r \in dfTomb THEN NoRow ELSE dfLatest[r]

(* ============== claims on the distributed engine's modes ============== *)
(* C13: after the same sequence of inserts and deletes, an engine built with
   use_direct_flush=true and one built with use_direct_flush=false have
   returned the same row ids from insert and return the same result from
   select and from count. *)
C13_ModesAgree ==
    /\ issuedDirect = issued
    /\ DistributedColumnarDB_select(TRUE) = DistributedColumnarDB_select(FALSE)
    /\ DistributedColumnarDB_count(TRUE) = DistributedColumnarDB_count(FALSE)

(* ================= claims on the distributed cache ==================== *)
(* C15: on a non-owner node, once the invalidation for a write has been
   processed, a cache hit of DistributedCache.get never returns data that was
   fetched from the owner before that write, whatever the interleaving of an
   in-flight get (miss, fetch, set) with the invalidation. *)
C15_NoStaleAfterInvalidation ==
    (dcLast.op = "get" /\ dcLast.hit) => dcLast.data >= invalidatedVer

(* C16: when the peer has processed the invalidate_cache frame the owner
   broadcast after a write, the peer's distributed cache holds no entry for
   the key any more. *)
C16_BroadcastRemovesEntry ==
    dcLast.op = "invalidate_cache" => ~dcache.present

(* C17: DistributedCache.get and LRUCache.get never return an entry whose age
   exceeds its TTL, and an expired entry found on access is removed and the
   access is a miss. *)
C17_NoExpiredHit ==
    /\ (dcLast.op \in {"get", "lru_get"} /\ dcLast.hit) => dcLast.age <= dcLast.ttl
    /\ dcLast.op = "get_miss" => ~dcache.present
    /\ dcLast.op = "lru_miss" => ~lru.present

(* an expired entry was found by get and by LRUCache.get *)
C17_Witness ==
    /\ dcLast.op \in {"get_miss", "lru_miss"}
    /\ dcLast.hit
    /\ dcNow > DcTtl

(* ===================== claims on the node client ====================== *)
(* C18: NodeClient.request makes at most 3 attempts, and whenever it ends in
   failure (request timeout, error response or connection failure) the
   node's address is in the blacklist and the error raised is a timeout or a
   connection error. *)
C18_FailureBlacklists ==
    ncLast.outcome \notin {"none", "ok"} =>
        /\ ncLast.attempts <= MAX_RETRIES
        /\ ncLast.outcome \in {"TimeoutError", "ConnectionError"}
        /\ ncLast.blacklisted

(* C19: when the connection to a peer drops, the pending futures that fail
   with a connection error are those addressed to that peer; futures
   addressed to other peers stay pending. *)
C19_OnlyThatPeersFuturesFail ==
    \A k \in NcTasks :
        ncReq[k].fut = "ConnectionError" => ncReq[k].failedBy = ncReq[k].node

(* ======================= claims on the registry ======================== *)
(* C20: a peer whose last heartbeat was more than the heartbeat timeout old
   when a cleanup cycle ran is, after the cycle, in neither the peer map nor
   the hash ring; the cycle invoked the node-change callback exactly once
   with ('leave', that peer), and the distributed cache holds no entry
   sourced from it. *)
C20_DeadPeerRemovedOnce ==
    regLast.op = "cleanup" =>
        \A n \in regLast.peers :
            regLast.now - regLast.hb[n] > HbTimeout =>
                /\ n \notin peers
                /\ n \notin ringNodes
                /\ \A i \in 1..Len(ring) : ring[i][2] # n
                /\ regLast.leave[n] = 1
                /\ \A g \in PVals : nodeCache[g] # n

(* a cleanup cycle ran while one peer was dead and the source of a cache
   entry and another peer was alive *)
C20_Witness ==
    /\ regLast.op = "cleanup"
    /\ \E n \in regLast.peers :
           /\ regLast.now - regLast.hb[n] > HbTimeout
           /\ \E g \in PVals : regLast.cache[g] = n
    /\ \E n \in regLast.peers : regLast.now - regLast.hb[n] <= HbTimeout

(* ======================= claims on the hash ring ======================= *)
(* C21: whatever sequence of add_node, remove_node, update_node_weight and
   lookups produced the ring, get_node_for_guild(k) returns for every key k
   the owner that a fresh ring returns to which the same nodes with the
   same weights were added, in ascending and in descending order of ids. *)
C21_OwnerIndependentOfHistory ==
    \A g \in PVals :
        /\ ConsistentHashRing_owner(hashRing, g)
               = ConsistentHashRing_owner(RingBuilt(EmptyRing, hashRing.weights, TRUE), g)
        /\ ConsistentHashRing_owner(hashRing, g)
               = ConsistentHashRing_owner(RingBuilt(EmptyRing, hashRing.weights, FALSE), g)

(* every node is on the ring, with different weights; nodes were added out
   of ascending order, removed or re-weighted in between, and a lookup is
   memoized *)
C21_Witness ==
    /\ hrHist.changed /\ hrHist.outOfOrder
    /\ DOMAIN hashRing.weights = RingNodeIds
    /\ \E n, k \in RingNodeIds : hashRing.weights[n] # hashRing.weights[k]
    /\ \E g \in PVals : hashRing.memo[g] # NoNode

(* ========================= claims on fan-out =========================== *)
(* C22: the peers that a fan-out call queries hold at most one peer of each
   cluster group (the group of a peer is its cluster_id, else its host),
   every one of them is healthy, and every cluster group that has a healthy
   peer has one of its peers among them. *)
C22_OneHealthyPeerPerCluster ==
    selLast.op # "none" =>
        /\ \A a, b \in selLast.queried :
               cluster_id(fanReg[a]) = cluster_id(fanReg[b]) => a = b
        /\ \A a \in selLast.queried : a \in DOMAIN fanReg /\ fanReg[a].healthy
        /\ \A p \in DOMAIN fanReg :
               fanReg[p].healthy =>
                   \E a \in selLast.queried : cluster_id(fanReg[a]) = cluster_id(fanReg[p])

(* a call queried one of two healthy peers of one cluster group, while a
   peer without cluster_id shares its group through its host *)
C22_Witness ==
    /\ selLast.op # "none"
    /\ \E a \in selLast.queried, p \in DOMAIN fanReg :
           /\ p # a /\ fanReg[p].healthy
           /\ cluster_id(fanReg[a]) = cluster_id(fanReg[p])
           /\ fanReg[a].cid # fanReg[p].cid

(* what makes two rows the same row: the id, else the row_id, else the items *)
DistinctBy(row) ==
    IF row.id # 0 THEN <<"id", row.id>>
    ELSE IF row.row_id # 0 THEN <<"row_id", row.row_id>>
    ELSE <<"items", row.v>>

(* the rows that the readers of the call returned within the timeout *)
RowsInTime ==
    UNION {{fanTasks[i].rows[j] : j \in 1..Len(fanTasks[i].rows)} :
              i \in {k \in 1..Len(fanTasks) : fanTasks[k].inner = "ok"}}

(* C23: a fan_out_read with strategy 'union' that returned gives only rows
   that a reader returned in time, gives no two rows that are the same row,
   and gives every distinct row that a reader returned in time; the rows of
   a reader that timed out or failed are not among them on its account. *)
C23_UnionReturnsEachRowOnce ==
    (fanCall.pc = "returned" /\ fanCall.strategy = "union") =>
        LET res == fanCall.result
        IN  /\ \A a, b \in 1..Len(res) : DistinctBy(res[a]) = DistinctBy(res[b]) => a = b
            /\ \A a \in 1..Len(res) : res[a] \in RowsInTime
            /\ \A r \in RowsInTime : \E a \in 1..Len(res) : DistinctBy(res[a]) = DistinctBy(r)

(* a 'union' call returned rows although a peer timed out holding rows, and
   two readers had returned the same row *)
C23_Witness ==
    /\ fanCall.pc = "returned" /\ fanCall.strategy = "union"
    /\ fanCall.result # <<>>
    /\ \E i \in 2..Len(fanTasks) : fanTasks[i].inner = "timeout" /\ fanTasks[i].rows # <<>>
    /\ \E i, k \in 1..Len(fanTasks) :
           /\ i # k /\ fanTasks[i].inner = "ok" /\ fanTasks[k].inner = "ok"
           /\ \E a \in 1..Len(fanTasks[i].rows), b \in 1..Len(fanTasks[k].rows) :
                  DistinctBy(fanTasks[i].rows[a]) = DistinctBy(fanTasks[k].rows[b])

(* C24: a fan_out_read with strategy 'first_positive' that returned gives
   the result of the first task to complete with rows, [] when no task
   completed with rows; with 'fastest' it gives the result of the first task
   to complete; in both cases no task of the call is still pending. *)
C24_FirstResponseReturned ==
    (fanCall.pc = "returned" /\ fanCall.strategy \in {"first_positive", "fastest"}) =>
        LET positive == {k \in 1..Len(fanOrder) : task_result(fanTasks[fanOrder[k]]) # <<>>}
        IN  /\ Pending(fanTasks) = {}
            /\ fanCall.strategy = "first_positive" =>
                   fanCall.result = IF positive = {} THEN <<>>
                                    ELSE task_result(fanTasks[fanOrder[Min(positive)]])
            /\ fanCall.strategy = "fastest" =>
                   fanCall.result = task_result(fanTasks[Head(fanOrder)])

(* ==================== claims on the engine's tables ==================== *)
(* C25: a row operation (insert, update, delete, select, find_one,
   find_by_id, count, exists) on a table name that is not in _tables ends
   with an error and leaves the engine's state as it was. *)
C25_UnknownTableFails ==
    (engLast.op \in RowOps /\ ~engLast.known) =>
        engLast.outcome = "ValueError" /\ ~engLast.changed

(* the stored rows of the direct-flush table whose partition value is g *)
StoredWith(g) ==
    {i \in 1..Len(segs) : \E j \in 1..Len(segs[i]) : segs[i][j].pv = g}

(* C26: once rows are stored, an update with the condition "partition key =
   g" changes the stored rows that satisfy it, and after a delete with that
   condition no stored row satisfies it: while such a row is stored, the
   last update or delete with that condition did change the storage. *)
C26_UpdateDeleteReachStoredRows ==
    (lastWrite.kind \in {"update", "delete"} /\ StoredWith(lastWrite.pv) # {}) =>
        lastWrite.changed

(* C27: a select with condition q returns exactly the rows of the table that
   satisfy q, in row order, also when it is answered from the query cache;
   left aside are the answers from an entry stored before a write, which
   C12 is about. *)
C27_SelectAnswersItsCondition ==
    (colCall.op = "select" /\ ~(colCall.cached /\ colCall.old)) =>
        colCall.result = SelectSeq(colData, LAMBDA x : colCall.q = NoCond \/ x = colCall.q)

(* ================ claims on the MemTable state machine ================= *)
(* C28: the memtable that MemTableManager holds as the active memtable of
   the table is in state ACTIVE at every moment, so that an insert issued
   after flush_all is accepted. *)
C28_ActiveMemtableIsActive ==
    fsState[fsActive] = "ACTIVE"

(* the steps MemTable._state may take according to the state diagram *)
StateSteps ==
    {<<"NONE", "ACTIVE">>, <<"ACTIVE", "IMMUTABLE">>, <<"IMMUTABLE", "FLUSHING">>,
     <<"FLUSHING", "FLUSHED">>, <<"FLUSHING", "IMMUTABLE">>}

(* C29: a MemTable's state only advances Active -> Immutable -> Flushing ->
   Flushed, with the one backward step Flushing -> Immutable, and a memtable
   is FLUSHED only if an SSTable with its entries was written and registered
   through the on_flush_complete callback. *)
C29_StateAdvancesAndFlushedIsRegistered ==
    /\ [][\A m \in FsTables :
            fsState'[m] # fsState[m] => <<fsState[m], fsState'[m]>> \in StateSteps]_vars
    /\ [](\A m \in FsTables :
            fsState[m] = "FLUSHED" => m \in fsFiles /\ m \in fsRegistry)

(* C30, in its finite-run form: a memtable that schedule_flush put on the
   queue is, until it is FLUSHED and released from the immutable list, either
   still on the queue or in the hands of the flush loop, so that after a
   writer failure another attempt is pending. *)
C30_ScheduledFlushStaysPending ==
    \A m \in fsScheduled :
        \/ m \in SeqRange(fsQueue)
        \/ m = fsLoop
        \/ fsState[m] = "FLUSHED" /\ m \notin SeqRange(fsImm)

(* C40: after any sequence of add_node, remove_node, update_node_weight and
   lookups, the owner get_node_for_guild(k) returns, from the memo or not, is
   the owner computed from the current ring points (the node of the first
   point at or after hash(k), wrapping around) and is a node of the ring;
   on an empty ring it is None. *)
C40_MemoAgreesWithRing ==
    \A g \in PVals :
        IF hashRing.ring = <<>>
        THEN ConsistentHashRing_owner(hashRing, g) = NoNode
        ELSE /\ ConsistentHashRing_owner(hashRing, g) = RingOwnerAt(hashRing.ring, g)
             /\ ConsistentHashRing_owner(hashRing, g) \in DOMAIN hashRing.weights

(* after a removal or a change of weight, a key is answered from the memo
   while another node is on the ring *)
C40_Witness ==
    /\ hrHist.changed
    /\ Cardinality(DOMAIN hashRing.weights) >= 2
    /\ \E g \in PVals : hashRing.memo[g] \in DOMAIN hashRing.weights

(* ======================== claims on compaction ========================= *)
CpRegIds(reg) == {reg[i].id : i \in 1..Len(reg)}

(* the merged output of the last compaction: a registered segment one level
   above the compacted one whose file did not exist before *)
MergedOutputs ==
    {i \in 1..Len(cpRegistry) :
        /\ cpRegistry[i].level = cpLast.level + 1
        /\ cpRegistry[i].id \notin DOMAIN cpLast.files
        /\ cpRegistry[i].id \in DOMAIN cpDisk}

(* C31: after the compaction service compacted a level, every row that
   MemTableManager.get and scan returned before is returned with the same
   value, the manager's reader list refers only to files that exist, and it
   covers the merged output SSTable. *)
C31_CompactionKeepsReads ==
    cpLast.op = "compact" =>
        /\ \A r \in RowIds :
               /\ CpGet(cpLast.mem, cpLast.files, cpLast.readers, r) \notin {NoRow, Raises}
                      => CpGet(cpMem, cpDisk, cpReaders, r)
                             = CpGet(cpLast.mem, cpLast.files, cpLast.readers, r)
               /\ CpScan(cpLast.mem, cpLast.files, cpLast.readers, r) \notin {NoRow, Raises}
                      => CpScan(cpMem, cpDisk, cpReaders, r)
                             = CpScan(cpLast.mem, cpLast.files, cpLast.readers, r)
        /\ \A i \in 1..Len(cpReaders) : cpReaders[i] \in DOMAIN cpDisk
        /\ \E i \in MergedOutputs : cpRegistry[i].id \in SeqRange(cpReaders)

(* C32: an input of a compaction is unregistered or its file deleted only
   when the merged output was written and registered; when no output was
   written, every input stays registered and on disk; and every registered
   SSTable has a level in 0..MAX_LEVELS. *)
C32_InputsDroppedOnlyAfterOutput ==
    /\ cpLast.op = "compact" =>
           ((\E s \in cpLast.inputs : s \notin DOMAIN cpDisk \/ s \notin CpRegIds(cpRegistry))
                => MergedOutputs # {})
    /\ \A i \in 1..Len(cpRegistry) : cpRegistry[i].level \in 0..MAX_LEVELS

(* a compaction round ran on a level at the threshold, wrote no output, and
   its inputs are all registered with their files on disk *)
C32_Witness ==
    /\ cpLast.op = "compact"
    /\ Cardinality(cpLast.inputs) >= LevelThreshold
    /\ MergedOutputs = {}
    /\ cpLast.inputs \subseteq DOMAIN cpDisk
    /\ cpLast.inputs \subseteq CpRegIds(cpRegistry)

(* ================ claims on direct-flush compaction ==================== *)
(* C33: a row written by insert while compact() of the table was in progress
   is not lost: once compact() has returned, and as long as that insert is
   the last write of the row, get and scan return it. *)
C33_InsertDuringCompactKept ==
    (dfcPc = "idle" /\ dfcLast.op = "compact") =>
        \A r \in DOMAIN dfcLast.during :
            (dfLatest[r] = dfcLast.during[r] /\ r \notin dfTomb) =>
                /\ DirectFlushManager_get(r) = dfLatest[r]
                /\ DirectFlushManager_scan(r) = dfLatest[r]

(* =================== claims on request correlation ===================== *)
(* C34: on every attempt of NodeClient.request, retries included, the frame
   sent carries the request_id under which the future of the attempt is
   pending, and when no call of a task is in progress none of its futures is
   pending. *)
C34_FrameIdIsPendingId ==
    \A k \in NcTasks :
        /\ ncReq[k].pc = "waiting" =>
               frame_request_id(k, ncReq[k].attempt) = pending_request_id(k, ncReq[k].attempt)
        /\ ncReq[k].pc = "idle" => ncReq[k].fut = "none"

(* ============== claims on drop_table and create_table ================== *)
(* C35: after create_table(T), whether or not a drop_table(T) of an earlier
   table of that name came before, and before any insert, the table is empty on every engine: select returns [] and count
   returns 0. *)
C35_RecreatedTableIsEmpty ==
    (dtExists /\ dtFresh) =>
        \A e \in Engines : DtSelectResult(e) = <<>> /\ DtCount(e) = 0

(* ====================== claims on failed inserts ======================= *)
(* C36: an insert that raises because its transaction is no longer Active
   leaves the table's rows, the table file and the WAL as they were before
   the call. *)
C36_FailedInsertChangesNothing ==
    [][\A t \in Txns, okw \in BOOLEAN :
          (Insert(t, okw) /\ Finished(t)) => (tbl' = tbl /\ disk' = disk /\ wal' = wal)]_vars

(* ===================== claims on count and select ====================== *)
(* C37: in both storage modes of DistributedColumnarDB, count(T) without
   condition equals the number of rows select(T) returns without condition,
   limit or offset. *)
C37_CountIsSelectLength ==
    /\ DistributedColumnarDB_count(TRUE) = Len(DistributedColumnarDB_select(TRUE))
    /\ DistributedColumnarDB_count(FALSE) = Len(DistributedColumnarDB_select(FALSE))

(* ========================= claims on recover =========================== *)
RecHas(log, t, kind) == \E i \in 1..Len(log) : log[i] = [txn |-> t, kind |-> kind, row_id |-> -1, seq |-> 0]

RecOwnOps(log, t) ==
    LET own == SelectSeq(log, LAMBDA rec : rec.txn = t /\ rec.kind \notin {"COMMIT", "ABORT"})
    IN  [i \in 1..Len(own) |-> [kind |-> own[i].kind, row_id |-> own[i].row_id, seq |-> own[i].seq]]

(* C38: recover() gives a transaction the state Committed exactly when the
   WAL holds its COMMIT record, Aborted exactly when the WAL holds its ABORT
   record and no COMMIT record, Pending when it has records but neither; and
   the rebuilt transaction carries exactly its own operation records, in the
   order they were appended. *)
C38_RecoverClassifies ==
    recovered.ran =>
        \A t \in Txns :
            /\ recovered.state[t] = "COMMITTED" <=> RecHas(recovered.log, t, "COMMIT")
            /\ recovered.state[t] = "ABORTED" <=>
                   (RecHas(recovered.log, t, "ABORT") /\ ~RecHas(recovered.log, t, "COMMIT"))
            /\ recovered.state[t] = "PENDING" <=>
                   /\ \E i \in 1..Len(recovered.log) : recovered.log[i].txn = t
                   /\ ~RecHas(recovered.log, t, "ABORT")
                   /\ ~RecHas(recovered.log, t, "COMMIT")
            /\ recovered.ops[t] = RecOwnOps(recovered.log, t)

(* recover() read a log where the operations of a committed and of a
   crashed transaction interleave *)
C38_Witness ==
    /\ recovered.ran
    /\ \E t, u \in Txns :
          /\ recovered.state[t] = "COMMITTED"
          /\ recovered.state[u] = "PENDING"
          /\ Len(recovered.ops[t]) = 2
          /\ Len(recovered.ops[u]) >= 1
          /\ \E i, j, k \in 1..Len(recovered.log) :
                /\ i < j /\ j < k
                /\ IsOpOf(t, recovered.log[i])
                /\ IsOpOf(u, recovered.log[j])
                /\ IsOpOf(t, recovered.log[k])

(* ========================== claims on LRUCache ========================= *)
(* C39: after every set the cache holds at most max_size entries and its
   tracked memory is at most max_memory_bytes, and the entries the set
   evicted are the least recently used ones. *)
C39_SetKeepsBounds ==
    lruLast.op = "set" =>
        /\ Len(cacheEntries) <= LruMaxSize
        /\ currentMemory <= LruMaxBytes
        /\ \E n \in 0..Len(lruLast.before) :
              lruLast.evicted = {lruLast.before[i] : i \in 1..n}

====
